---------------------------- MODULE Spec2Model ----------------------------
(***************************************************************************)
(* A model of the consultation-form pipeline of prcc-data-entry:           *)
(* form_parser.py (field, choice and notes extraction, date               *)
(* normalisation, record mapping, validation) and the orchestration of    *)
(* main_app.py (per-page parsing, Smartsheet submission, CRM sync).       *)
(*                                                                         *)
(* Text is a TLA+ string; a character is a string of length 1.  The       *)
(* regular expressions of the source are data (sequences of items) run    *)
(* by a backtracking matcher with the priorities of Python's re module.   *)
(***************************************************************************)
EXTENDS Integers, Sequences, FiniteSets, TLC

(***************************************************************************)
(* The state.  A call of one of the parser's functions: arg is the input   *)
(* it is given, fn the call made of it (its name and other parameters;     *)
(* NoCall before the call), ret what the call returned.                    *)
(*                                                                         *)
(* A run of ConsultationAutomation.run_complete_workflow: arg is the list  *)
(* of OCR results of the PDF, ret what the run returned, and               *)
(*   use_crm               config['use_crm']                               *)
(*   pc                    the step the run is at                          *)
(*   page                  the index of the next OCR result to parse       *)
(*   parsed_consultations  the list process_pdf_file builds                *)
(*   page_of               the page each parsed consultation came from     *)
(*   parsing_result        what process_pdf_file returned                  *)
(*   driver                the bot's browser: "none", "open" or "closed"   *)
(*   sub                   the index of the next consultation to submit    *)
(*   smartsheet_results    the list process_smartsheet_submissions builds  *)
(*   bot_log               the calls of SmartsheetBot.process_consultation *)
(*                         and the seconds the loop slept after each      *)
(*   crm_log               the consultations handed to the CRM sync        *)
(*   crm_results           what the CRM sync returned                      *)
(*                                                                         *)
(* The ConsultationAutomation instance the upload handlers share, and the  *)
(* browsers:                                                               *)
(*   smartsheet_bot        self.smartsheet_bot: 0 for None, else the       *)
(*                         number of the SmartsheetBot it refers to        *)
(*   bot_driver            each bot's self.driver: 0 for None, else the    *)
(*                         number of the browser session it refers to      *)
(*   sessions              each browser session: "open" or "quit"          *)
(*   runs                  each upload's call of                           *)
(*                         process_smartsheet_submissions: where it is     *)
(*                         and what it did                                 *)
(*                                                                         *)
(* The Twenty CRM as CRMIntegration.sync_consultation_data reaches it:     *)
(*   crm_requests          the HTTP requests sent, in order                *)
(*   crm_records           the records the CRM holds                       *)
(***************************************************************************)
VARIABLES arg, fn, ret, use_crm, pc, page, parsed_consultations, page_of, parsing_result,
          driver, sub, smartsheet_results, bot_log, crm_log, crm_results,
          smartsheet_bot, bot_driver, sessions, runs, crm_requests, crm_records

workflow_vars ==
    <<use_crm, pc, page, parsed_consultations, page_of, parsing_result, driver, sub,
      smartsheet_results, bot_log, crm_log, crm_results>>

sink_vars == <<smartsheet_bot, bot_driver, sessions, runs, crm_requests, crm_records>>

vars == <<arg, fn, ret, workflow_vars, sink_vars>>

(***************************************************************************)
(* Characters and strings.                                                 *)
(***************************************************************************)
Ch(s, i) == SubSeq(s, i, i)

\* The characters str.strip(), str.split() and the regex class \s treat as
\* white space, among those a TLA+ string can hold.
WS == {" ", "\t", "\n", "\r", "\f"}

Digits == {"0", "1", "2", "3", "4", "5", "6", "7", "8", "9"}

UpperChars == "ABCDEFGHIJKLMNOPQRSTUVWXYZ"

LowerChars == "abcdefghijklmnopqrstuvwxyz"

UpperSet == {Ch(UpperChars, i) : i \in 1..26}

LowerOf == [c \in UpperSet |-> Ch(LowerChars, CHOOSE i \in 1..26 : Ch(UpperChars, i) = c)]

\* re.IGNORECASE compares characters after case folding.
Lower(c) == IF c \in UpperSet THEN LowerOf[c] ELSE c

\* The stand-ins, in the ASCII of a TLA+ string, of the mark glyphs
\* U+2713, U+2717 and U+2327 of the choice patterns.
CheckMark == "^"

CrossMark == "~"

BoxMark == "#"

\* The least i in lo..hi with P(i), or -1; the search halves the interval, so its
\* depth is logarithmic, and it evaluates P left to right up to the first success.
RECURSIVE FirstIdx(_, _, _)
FirstIdx(P(_), lo, hi) ==
    IF lo > hi THEN -1
    ELSE IF lo = hi THEN (IF P(lo) THEN lo ELSE -1)
    ELSE LET mid == (lo + hi) \div 2
             l == FirstIdx(P, lo, mid)
         IN  IF l # -1 THEN l ELSE FirstIdx(P, mid + 1, hi)

\* The greatest i in lo..hi with P(i), or -1, evaluating P right to left.
RECURSIVE LastIdx(_, _, _)
LastIdx(P(_), lo, hi) ==
    IF lo > hi THEN -1
    ELSE IF lo = hi THEN (IF P(lo) THEN lo ELSE -1)
    ELSE LET mid == (lo + hi) \div 2
             r == LastIdx(P, mid + 1, hi)
         IN  IF r # -1 THEN r ELSE LastIdx(P, lo, mid)

\* The string of a sequence of strings: their concatenation.
RECURSIVE Cat(_, _, _)
Cat(t, lo, hi) ==
    IF lo > hi THEN ""
    ELSE IF lo = hi THEN t[lo]
    ELSE LET mid == (lo + hi) \div 2 IN Cat(t, lo, mid) \o Cat(t, mid + 1, hi)

Concat(t) == Cat(t, 1, Len(t))

\* str.strip()
Strip(s) ==
    LET first == FirstIdx(LAMBDA i : Ch(s, i) \notin WS, 1, Len(s))
        last == LastIdx(LAMBDA i : Ch(s, i) \notin WS, 1, Len(s))
    IN  IF first = -1 THEN "" ELSE SubSeq(s, first, last)

\* re.sub(r'\s+', ' ', s): every run of white space becomes one space.
CollapseWS(s) ==
    LET marked == [i \in 1..Len(s) |->
                      IF Ch(s, i) \notin WS THEN Ch(s, i)
                      ELSE IF i = 1 \/ Ch(s, i - 1) \notin WS THEN " "
                      ELSE ""]
    IN  Concat(marked)

\* str.replace(a, b) for single characters a and b.
Replace(s, a, b) ==
    Concat([i \in 1..Len(s) |-> IF Ch(s, i) = a THEN b ELSE Ch(s, i)])

\* str.split(): the maximal runs of non-white-space characters, in order.
RECURSIVE SplitWS(_)
SplitWS(s) ==
    LET t == Strip(s)
        gap == FirstIdx(LAMBDA i : Ch(t, i) \in WS, 1, Len(t))
    IN  IF Len(t) = 0 THEN <<>>
        ELSE IF gap = -1 THEN <<t>>
        ELSE <<SubSeq(t, 1, gap - 1)>> \o SplitWS(SubSeq(t, gap + 1, Len(t)))

\* ' '.join(parts)
RECURSIVE JoinSp(_)
JoinSp(parts) ==
    IF Len(parts) = 0 THEN ""
    ELSE IF Len(parts) = 1 THEN parts[1]
    ELSE parts[1] \o " " \o JoinSp(Tail(parts))

(***************************************************************************)
(* Regular expressions.  A pattern is a sequence of items:                 *)
(*   lit   a literal string                                                *)
(*   cls   a character class (set c, negated if neg) repeated min..max     *)
(*         times (max = -1: unbounded), greedy unless lazy                 *)
(*   open, close   the parentheses of capturing group 1                    *)
(*   alt   an alternation of patterns, tried left to right                 *)
(*   look  a lookahead (?=...) over an alternation of patterns             *)
(*   eol   $ under re.MULTILINE;  eos   \Z                                 *)
(* Every pattern of the source is used with re.IGNORECASE.                 *)
(***************************************************************************)
Lit(s) == [k |-> "lit", s |-> s]

Rep(c, neg, min, max, lazy) ==
    [k |-> "cls", c |-> c, neg |-> neg, min |-> min, max |-> max, lazy |-> lazy]

Plus(c) == Rep(c, FALSE, 1, -1, FALSE)

Star(c) == Rep(c, FALSE, 0, -1, FALSE)

Opt(c) == Rep(c, FALSE, 0, 1, FALSE)

One(c) == Rep(c, FALSE, 1, 1, FALSE)

Open == [k |-> "open"]

Close == [k |-> "close"]

Alt(a) == [k |-> "alt", a |-> a]

Look(a) == [k |-> "look", a |-> a]

Eol == [k |-> "eol"]

Eos == [k |-> "eos"]

Fail == [ok |-> FALSE, start |-> 0, end |-> 0, gs |-> 0, ge |-> 0]

InClass(ch, it) == (\E c \in it.c : Lower(c) = Lower(ch)) # it.neg

\* Whether the literal lit stands in s at position i, case folded.
HasLit(s, i, lit) ==
    /\ i + Len(lit) - 1 <= Len(s)
    /\ \A j \in 1..Len(lit) : Lower(Ch(s, i + j - 1)) = Lower(Ch(lit, j))

\* The first success among F(lo), ..., F(hi) (up = TRUE) or F(hi), ..., F(lo),
\* or Fail; the search halves the interval, so its depth is logarithmic.
RECURSIVE FirstOk(_, _, _, _)
FirstOk(F(_), lo, hi, up) ==
    IF lo > hi THEN Fail
    ELSE IF lo = hi THEN F(lo)
    ELSE LET mid == (lo + hi) \div 2
             a == IF up THEN FirstOk(F, lo, mid, up) ELSE FirstOk(F, mid + 1, hi, up)
         IN  IF a.ok THEN a
             ELSE IF up THEN FirstOk(F, mid + 1, hi, up) ELSE FirstOk(F, lo, mid, up)

\* The number of consecutive characters of s from position i in the class of it,
\* at most cap.
Run(s, i, it, cap) ==
    LET stop == FirstIdx(LAMBDA j : ~InClass(Ch(s, j), it), i, Len(s))
        n == IF stop = -1 THEN Len(s) + 1 - i ELSE stop - i
    IN  IF n > cap THEN cap ELSE n

\* M: match the items from position i of s, g the span of group 1 so far; the
\* result is the first success in the backtracking order of Python's re: a
\* greedy repetition tries its longest run first, a lazy one its shortest, an
\* alternation its branches left to right.
RECURSIVE M(_, _, _, _)
RECURSIVE TryAlts(_, _, _, _, _)
M(items, s, i, g) ==
    IF Len(items) = 0
    THEN [ok |-> TRUE, start |-> 0, end |-> i, gs |-> g.gs, ge |-> g.ge]
    ELSE LET it == Head(items)
             rest == Tail(items)
         IN  CASE it.k = "lit" ->
                    IF HasLit(s, i, it.s) THEN M(rest, s, i + Len(it.s), g) ELSE Fail
               [] it.k = "cls" ->
                    LET n == Run(s, i, it, IF it.max < 0 THEN Len(s) ELSE it.max)
                    IN  FirstOk(LAMBDA k : M(rest, s, i + k, g), it.min, n, it.lazy)
               [] it.k = "open" -> M(rest, s, i, [g EXCEPT !.gs = i])
               [] it.k = "close" -> M(rest, s, i, [g EXCEPT !.ge = i])
               [] it.k = "alt" -> TryAlts(it.a, rest, s, i, g)
               [] it.k = "look" ->
                    IF TryAlts(it.a, <<>>, s, i, g).ok THEN M(rest, s, i, g) ELSE Fail
               [] it.k = "eol" ->
                    IF i = Len(s) + 1 \/ Ch(s, i) = "\n" THEN M(rest, s, i, g) ELSE Fail
               [] it.k = "eos" ->
                    IF i = Len(s) + 1 THEN M(rest, s, i, g) ELSE Fail

TryAlts(alts, rest, s, i, g) ==
    IF Len(alts) = 0 THEN Fail
    ELSE LET r == M(Head(alts) \o rest, s, i, g)
         IN  IF r.ok THEN r ELSE TryAlts(Tail(alts), rest, s, i, g)

\* re.search(pattern, s): the match at the leftmost position that has one.
Search(items, s) ==
    FirstOk(LAMBDA i : [M(items, s, i, [gs |-> 0, ge |-> 0]) EXCEPT !.start = i],
            1, Len(s) + 1, TRUE)

\* match.groups(): non-empty iff the pattern has a capturing group.
HasGroup(items) == \E j \in 1..Len(items) : items[j].k = "open"

\* match.group(0) and match.group(1)
Group0(s, m) == SubSeq(s, m.start, m.end - 1)

Group1(s, m) == SubSeq(s, m.gs, m.ge - 1)

(***************************************************************************)
(* form_parser.py: the pattern tables of FormParser.__init__.              *)
(***************************************************************************)
ColonWS == {":"} \cup WS

DashWS == {"-"} \cup WS

\* ([^\n\r]+)
RestOfLine == <<Open, Rep({"\n", "\r"}, TRUE, 1, -1, FALSE), Close>>

\* (\d{5})
FiveDigits == <<Open, Rep(Digits, FALSE, 5, 5, FALSE), Close>>

\* (\d+)
SomeDigits == <<Open, Plus(Digits), Close>>

FieldNames ==
    <<"business_name", "dba", "contact_name", "address", "city", "zip", "phone",
      "email", "business_structure", "years_in_business", "full_time_employees",
      "session_date", "advisor", "contact_time", "type_of_consultation">>

field_patterns ==
    [business_name |->
        << <<Lit("Business"), Plus(WS), Lit("Name"), Plus(ColonWS)>> \o RestOfLine,
           <<Lit("Business"), Star(WS), Lit("Name"), Star(ColonWS)>> \o RestOfLine >>,
     dba |->
        << <<Lit("DBA"), Plus(ColonWS)>> \o RestOfLine,
           <<Lit("D"), Opt({"."}), Lit("B"), Opt({"."}), Lit("A"), Opt({"."}),
             Star(ColonWS)>> \o RestOfLine >>,
     contact_name |->
        << <<Lit("Contact"), Plus(WS), Lit("Name"), Plus(ColonWS)>> \o RestOfLine,
           <<Lit("Contact"), Star(WS), Lit("Name"), Star(ColonWS)>> \o RestOfLine >>,
     address |->
        << <<Lit("Address"), Plus(ColonWS)>> \o RestOfLine,
           <<Lit("Address"), Star(ColonWS)>> \o RestOfLine >>,
     city |->
        << <<Lit("City"), Plus(ColonWS)>> \o RestOfLine,
           <<Lit("City"), Star(ColonWS)>> \o RestOfLine >>,
     zip |->
        << <<Lit("Zip"), Plus(ColonWS)>> \o FiveDigits,
           <<Lit("ZIP"), Plus(ColonWS)>> \o FiveDigits,
           <<Lit("Zip"), Star(WS), Lit("Code"), Star(ColonWS)>> \o FiveDigits >>,
     phone |->
        << <<Lit("Phone"), Plus(ColonWS)>> \o RestOfLine,
           <<Lit("Phone"), Star(ColonWS)>> \o RestOfLine >>,
     email |->
        << <<Lit("Email"), Plus(ColonWS)>> \o RestOfLine,
           <<Lit("E"), Star(DashWS), Lit("mail"), Star(ColonWS)>> \o RestOfLine >>,
     business_structure |->
        << <<Lit("Business"), Plus(WS), Lit("Structure"), Plus(ColonWS)>> \o RestOfLine,
           <<Alt(<< <<Lit("LLC")>>,
                    <<Lit("S"), Star(DashWS), Lit("CORP")>>,
                    <<Lit("Corporation")>>,
                    <<Lit("Partnership")>>,
                    <<Lit("Sole"), Plus(WS), Lit("Proprietorship")>> >>)>> >>,
     years_in_business |->
        << <<Lit("Years"), Plus(WS), Lit("in"), Plus(WS), Lit("business"),
             Plus(ColonWS)>> \o RestOfLine,
           <<Open,
             Alt(<< <<Plus(Digits), Star(WS), One({"-"}), Star(WS), Plus(Digits)>>,
                    <<Plus(Digits)>> >>),
             Close>> >>,
     full_time_employees |->
        << <<Lit("Full"), Plus(WS), Lit("time"), Plus(WS), Lit("employees"),
             Plus(ColonWS)>> \o RestOfLine,
           <<Lit("Full"), Star(DashWS), Lit("time"), Plus(WS), Lit("employees"),
             Star(ColonWS)>> \o SomeDigits >>,
     session_date |->
        << <<Lit("Session"), Plus(WS), Lit("Date"), Plus(ColonWS)>> \o RestOfLine,
           <<Open, Rep(Digits, FALSE, 1, 2, FALSE), One({"/", "-"}),
             Rep(Digits, FALSE, 1, 2, FALSE), One({"/", "-"}),
             Rep(Digits, FALSE, 2, 4, FALSE), Close>> >>,
     advisor |->
        << <<Lit("Advisor"), Plus(ColonWS)>> \o RestOfLine,
           <<Lit("Advisor"), Star(ColonWS)>> \o RestOfLine >>,
     contact_time |->
        << <<Lit("Contact"), Plus(WS), Lit("Time"), Plus(ColonWS)>> \o RestOfLine,
           <<Lit("Contact"), Star(WS), Lit("Time"), Star(ColonWS)>> \o SomeDigits >>,
     type_of_consultation |->
        << <<Lit("Type"), Plus(WS), Lit("of"), Plus(WS), Lit("Consultation"),
             Plus(ColonWS)>> \o RestOfLine,
           <<Alt(<< <<Lit("operations")>>, <<Lit("marketing")>>, <<Lit("financing")>>,
                    <<Lit("legal")>>, <<Lit("accounting")>> >>)>> >>]

ChoiceNames ==
    <<"business_stage", "business_presence", "race", "ethnicity", "language",
      "veteran", "disabled">>

\* choice_patterns[group]['options']; the group's 'patterns' are read by
\* extract_checkbox_selections and never used.
choice_options ==
    [business_stage |->
        <<"Seed/Idea Phase", "Start up Phase", "Growth Phase", "Expansion Phase",
          "Maturity/Exit Phase">>,
     business_presence |-> <<"Home based", "Brick and Mortar", "E-commerce">>,
     race |->
        <<"American Indian / Alaska Native", "Black / African American",
          "Native Hawaiian / Pacific Islander", "Asian", "White">>,
     ethnicity |-> <<"Hispanic / Latino", "Other">>,
     language |-> <<"English", "Spanish">>,
     veteran |-> <<"Yes", "No">>,
     disabled |-> <<"Yes", "No">>]

\* [X marks]: the class of mark glyphs of the option pattern.
MarkGlyphs == {"X", CheckMark, CrossMark, BoxMark}

\* rf'[marks]\s*{re.escape(option)}|{re.escape(option)}\s*[marks]'
option_pattern(option) ==
    <<Alt(<< <<One(MarkGlyphs), Star(WS), Lit(option)>>,
             <<Lit(option), Star(WS), One(MarkGlyphs)>> >>)>>

\* (?=\n\s*$|\Z)
NotesEnd == Look(<< <<Lit("\n"), Star(WS), Eol>>, <<Eos>> >>)

\* . under re.DOTALL, lazily repeated: .*?
LazyAny == Rep({}, TRUE, 0, -1, TRUE)

notes_patterns ==
    << <<Lit("Consultation"), Plus(WS), Lit("Notes"), Plus(ColonWS), Open, LazyAny,
         Close, NotesEnd>>,
       <<Lit("Notes"), Plus(ColonWS), Open, LazyAny, Close, NotesEnd>>,
       <<Alt(<< <<Lit("Met")>>, <<Lit("Discussed")>>, <<Lit("Client")>> >>), LazyAny,
         NotesEnd>> >>

\* if len(notes) > 20
MinNotesLen == 20

(***************************************************************************)
(* Python values.  A dict is a function from its keys; dict.get(k, d) is   *)
(* Get.  An Optional[str] is a record: None, or Some(v).                   *)
(***************************************************************************)
EmptyDict == <<>>

Get(d, k, default) == IF k \in DOMAIN d THEN d[k] ELSE default

None == [isNone |-> TRUE, v |-> ""]

Some(v) == [isNone |-> FALSE, v |-> v]

\* A local variable: the body F of the code that follows the assignment of v.
Bind(v, F(_)) == F(v)

(***************************************************************************)
(* FormParser.clean_text                                                   *)
(***************************************************************************)
\* Variant: the digit 0 is kept.
clean_text_keeping_zero(text) ==
    IF text = "" THEN ""
    ELSE Replace(CollapseWS(Strip(text)), "|", "I")

clean_text(text) ==
    IF text = "" THEN ""
    ELSE Replace(Replace(CollapseWS(Strip(text)), "|", "I"), "0", "O")

(***************************************************************************)
(* FormParser.extract_field_value                                          *)
(***************************************************************************)
\* Variant: the last pattern that matches decides.
\* match.group(1) if match.groups() else match.group(0)
matched_value(pattern, text, match) ==
    IF HasGroup(pattern) THEN Group1(text, match) ELSE Group0(text, match)

RECURSIVE last_match(_, _)
last_match(patterns, text) ==
    IF Len(patterns) = 0 THEN None
    ELSE Bind(last_match(Tail(patterns), text), LAMBDA later :
            IF ~later.isNone THEN later
            ELSE Bind(Search(Head(patterns), text), LAMBDA match :
                    IF match.ok THEN Some(matched_value(Head(patterns), text, match))
                    ELSE None))

\* for pattern in patterns: the first pattern that matches decides; value is its
\* group 1 when the pattern has a group, else the whole match.
RECURSIVE first_match(_, _)
first_match(patterns, text) ==
    IF Len(patterns) = 0 THEN None
    ELSE Bind(Search(Head(patterns), text), LAMBDA match :
            IF match.ok THEN Some(matched_value(Head(patterns), text, match))
            ELSE first_match(Tail(patterns), text))

extract_field_value(text, field_name) ==
    Bind(first_match(Get(field_patterns, field_name, <<>>), text), LAMBDA value :
        IF value.isNone THEN None ELSE Some(clean_text(value.v)))

(***************************************************************************)
(* FormParser.extract_checkbox_selections                                  *)
(***************************************************************************)
\* Variant: the selections in the order in which their marks appear in the text.
RECURSIVE by_position(_, _)
by_position(options, text) ==
    IF options = {} THEN <<>>
    ELSE LET at(o) == Search(option_pattern(o), text).start
             first == CHOOSE o \in options : \A p \in options : at(o) <= at(p)
         IN  <<first>> \o by_position(options \ {first}, text)

selections_by_position(text, field_name) ==
    IF field_name \notin DOMAIN choice_options THEN <<>>
    ELSE by_position({o \in {choice_options[field_name][i] :
                                 i \in 1..Len(choice_options[field_name])} :
                         Search(option_pattern(o), text).ok}, text)

\* Variant: only a mark before the option selects it.
selections_marked_before(text, field_name) ==
    IF field_name \notin DOMAIN choice_options THEN <<>>
    ELSE SelectSeq(choice_options[field_name],
                   LAMBDA option :
                       Search(<<One(MarkGlyphs), Star(WS), Lit(option)>>, text).ok)

\* Variant: an option counts only on a line that starts with the group's label.
selections_under_label(text, field_name) ==
    IF field_name \notin DOMAIN choice_options THEN <<>>
    ELSE SelectSeq(choice_options[field_name],
                   LAMBDA option :
                       Search(<<Lit(field_name), Rep({"\n", "\r"}, TRUE, 0, -1, FALSE)>>
                                  \o option_pattern(option), text).ok)

extract_checkbox_selections(text, field_name) ==
    IF field_name \notin DOMAIN choice_options THEN <<>>
    ELSE SelectSeq(choice_options[field_name],
                   LAMBDA option : Search(option_pattern(option), text).ok)

(***************************************************************************)
(* FormParser.extract_consultation_notes.  The result is [raised, v]:      *)
(* raised when match.group(1) is asked of a pattern with no group          *)
(* (IndexError: no such group), else the returned string v.                *)
(***************************************************************************)
Returned(v) == [raised |-> FALSE, v |-> v]

Raised(e) == [raised |-> TRUE, v |-> e]

RECURSIVE first_notes(_, _)
first_notes(patterns, text) ==
    IF Len(patterns) = 0 THEN Returned("")
    ELSE Bind(Search(Head(patterns), text), LAMBDA match :
            IF ~match.ok THEN first_notes(Tail(patterns), text)
            ELSE IF ~HasGroup(Head(patterns)) THEN Raised("no such group")
            ELSE Bind(Strip(Group1(text, match)), LAMBDA notes :
                    IF Len(notes) > MinNotesLen THEN Returned(clean_text(notes))
                    ELSE first_notes(Tail(patterns), text)))

extract_consultation_notes(text) == first_notes(notes_patterns, text)

(***************************************************************************)
(* FormParser.parse_date, with datetime.strptime and strftime.             *)
(***************************************************************************)
NonZero == Digits \ {"0"}

\* _strptime's regular expressions of the directives %m, %d, %Y and %y.
MonthRe ==
    Alt(<< <<One({"1"}), One({"0", "1", "2"})>>,
           <<One({"0"}), One(NonZero)>>,
           <<One(NonZero)>> >>)

DayRe ==
    Alt(<< <<One({"3"}), One({"0", "1"})>>,
           <<One({"1", "2"}), One(Digits)>>,
           <<One({"0"}), One(NonZero)>>,
           <<One(NonZero)>>,
           <<One({" "}), One(NonZero)>> >>)

YearRe(ylen) == Rep(Digits, FALSE, ylen, ylen, FALSE)

\* date_formats: the two day and month directives in order, the separator, and
\* the width of the year (%Y: 4, %y: 2).
date_formats ==
    << [first |-> "m", sep |-> "/", ylen |-> 4], [first |-> "m", sep |-> "/", ylen |-> 2],
       [first |-> "m", sep |-> "-", ylen |-> 4], [first |-> "m", sep |-> "-", ylen |-> 2],
       [first |-> "d", sep |-> "/", ylen |-> 4], [first |-> "d", sep |-> "/", ylen |-> 2] >>

FormatRe(fmt) ==
    << IF fmt.first = "m" THEN MonthRe ELSE DayRe, Lit(fmt.sep),
       IF fmt.first = "m" THEN DayRe ELSE MonthRe, Lit(fmt.sep), YearRe(fmt.ylen) >>

DigitVal(c) == CHOOSE n \in 0..9 : Ch("0123456789", n + 1) = c

\* int(s) of a string of digits
RECURSIVE ToInt(_)
ToInt(s) ==
    IF Len(s) = 0 THEN 0
    ELSE 10 * ToInt(SubSeq(s, 1, Len(s) - 1)) + DigitVal(Ch(s, Len(s)))

\* str(n) for n >= 0
RECURSIVE ToStr(_)
ToStr(n) ==
    IF n < 10 THEN Ch("0123456789", n + 1)
    ELSE ToStr(n \div 10) \o Ch("0123456789", (n % 10) + 1)

Pad2(n) == IF n < 10 THEN "0" \o ToStr(n) ELSE ToStr(n)

IsLeap(y) == (y % 4 = 0 /\ y % 100 # 0) \/ y % 400 = 0

DaysInMonth(y, m) ==
    IF m = 2 THEN (IF IsLeap(y) THEN 29 ELSE 28)
    ELSE IF m \in {4, 6, 9, 11} THEN 30 ELSE 31

NoDate == [ok |-> FALSE, y |-> 0, m |-> 0, d |-> 0]

\* datetime.strptime(s, fmt): the format's regular expression must match at the
\* start of s and leave nothing over, and the date must exist; else ValueError
\* (NoDate).  A two-digit year up to 68 is in the 2000s, from 69 in the 1900s;
\* the least year of a datetime is 1.
strptime(s, fmt) ==
    LET match == M(FormatRe(fmt), s, 1, [gs |-> 0, ge |-> 0])
        p1 == FirstIdx(LAMBDA i : Ch(s, i) = fmt.sep, 1, Len(s))
        p2 == FirstIdx(LAMBDA i : Ch(s, i) = fmt.sep, p1 + 1, Len(s))
        a == ToInt(Strip(SubSeq(s, 1, p1 - 1)))
        b == ToInt(Strip(SubSeq(s, p1 + 1, p2 - 1)))
        c == ToInt(SubSeq(s, p2 + 1, Len(s)))
        year == IF fmt.ylen = 4 THEN c
                ELSE IF c <= 68 THEN 2000 + c ELSE 1900 + c
        month == IF fmt.first = "m" THEN a ELSE b
        day == IF fmt.first = "m" THEN b ELSE a
    IN  IF ~match.ok \/ match.end # Len(s) + 1 THEN NoDate
        ELSE IF year < 1 \/ day > DaysInMonth(year, month) THEN NoDate
        ELSE [ok |-> TRUE, y |-> year, m |-> month, d |-> day]

Pad4(n) ==
    IF n < 10 THEN "000" \o ToStr(n)
    ELSE IF n < 100 THEN "00" \o ToStr(n)
    ELSE IF n < 1000 THEN "0" \o ToStr(n)
    ELSE ToStr(n)

\* parsed_date.strftime('%m/%d/%Y').  %Y is the C library's: glibc prints the
\* year as it is, other libraries pad it to four digits (pads_year).
strftime(date, pads_year) ==
    Pad2(date.m) \o "/" \o Pad2(date.d) \o "/"
        \o (IF pads_year THEN Pad4(date.y) ELSE ToStr(date.y))

RECURSIVE first_format(_, _, _)
first_format(formats, date_str, pads_year) ==
    IF Len(formats) = 0 THEN Strip(date_str)
    ELSE Bind(strptime(Strip(date_str), Head(formats)), LAMBDA parsed_date :
            IF parsed_date.ok THEN strftime(parsed_date, pads_year)
            ELSE first_format(Tail(formats), date_str, pads_year))

\* Variant: an input that no format parses is returned as it was given.
parse_date_untrimmed(date_str, pads_year) ==
    IF date_str = "" THEN ""
    ELSE IF \E k \in 1..Len(date_formats) : strptime(Strip(date_str), date_formats[k]).ok
    THEN first_format(date_formats, date_str, pads_year)
    ELSE date_str

\* parse_date where the C library pads the year (pads_year) or does not.
parse_date_with(date_str, pads_year) ==
    IF date_str = "" THEN "" ELSE first_format(date_formats, date_str, pads_year)

\* parse_date run on glibc.  The choice shows for years below 1000 only, and no
\* date that parse_form extracts has one: a four-digit year below 1000 has a 0,
\* which clean_text turns into the letter O.
parse_date(date_str) == parse_date_with(date_str, FALSE)

(***************************************************************************)
(* FormParser.map_to_smartsheet_format                                     *)
(***************************************************************************)
business_stage_mapping ==
    ("Seed/Idea Phase" :> "Seed/Idea Phase") @@ ("Start up Phase" :> "Start-up Phase")
    @@ ("Growth Phase" :> "Growth Phase") @@ ("Expansion Phase" :> "Expansion Phase")
    @@ ("Maturity/Exit Phase" :> "Maturity / Exit Phase")

\* Variant: the last selected option is taken.
last_selection(parsed_data, key, fallback) ==
    IF Len(Get(parsed_data, key, <<>>)) > 0
    THEN parsed_data[key][Len(parsed_data[key])] ELSE fallback

\* parsed_data.get(key, [default])[0] if parsed_data.get(key) else fallback
first_selection(parsed_data, key, fallback) ==
    IF Len(Get(parsed_data, key, <<>>)) > 0 THEN parsed_data[key][1] ELSE fallback

\* Variant: the last name is the second part alone.
split_name_two(contact_name) ==
    Bind(IF contact_name # "" THEN SplitWS(contact_name) ELSE <<>>, LAMBDA name_parts :
        [first_name |-> IF Len(name_parts) > 0 THEN name_parts[1] ELSE "",
         last_name |-> IF Len(name_parts) > 1 THEN name_parts[2] ELSE ""])

\* name_parts = contact_name.split() if contact_name else []; the first part is
\* the first name, the others joined by a space the last name.
split_name(contact_name) ==
    Bind(IF contact_name # "" THEN SplitWS(contact_name) ELSE <<>>, LAMBDA name_parts :
        [first_name |-> IF Len(name_parts) > 0 THEN name_parts[1] ELSE "",
         last_name |-> IF Len(name_parts) > 1 THEN JoinSp(Tail(name_parts)) ELSE ""])

\* stage_mapping.get(business_stage[0] if business_stage else '', 'Growth Phase')
mapped_stage(business_stage) ==
    Get(business_stage_mapping,
        IF Len(business_stage) > 0 THEN business_stage[1] ELSE "",
        "Growth Phase")

canonical_record(parsed_data, name) ==
        [delegate_agency |-> "Puerto Rican Cultural Center (PRCC)",
         vendor_id |-> "1055031",
         program |-> "Place-based Business Specialist",
         submitted_by |-> "wesleyo@prcc-chgo.org",
         reporting_month |-> "August",
         business_name |-> Get(parsed_data, "business_name", ""),
         business_owner_first_name |-> name.first_name,
         business_owner_last_name |-> name.last_name,
         business_owner_email |-> Get(parsed_data, "email", ""),
         business_street_address |-> Get(parsed_data, "address", ""),
         city |-> Get(parsed_data, "city", "Chicago"),
         state |-> "IL",
         zip_code |-> Get(parsed_data, "zip", ""),
         consultation_date |-> parse_date(Get(parsed_data, "session_date", "")),
         consultation_length |-> Get(parsed_data, "contact_time", "1"),
         consultation_language |-> first_selection(parsed_data, "language", "English"),
         business_stage |-> mapped_stage(Get(parsed_data, "business_stage", <<>>)),
         business_structure |->
             Get(parsed_data, "business_structure", "Limited Liability Company"),
         business_presence |->
             first_selection(parsed_data, "business_presence", "Brick & Mortar"),
         years_in_business |-> Get(parsed_data, "years_in_business", "2 to 5 years"),
         employee_count |-> Get(parsed_data, "full_time_employees", "2") \o " employees",
         race |-> first_selection(parsed_data, "race", "Prefer not to answer"),
         ethnicity |-> first_selection(parsed_data, "ethnicity", "Prefer not to answer"),
         gender |-> "Prefer not to answer",
         is_veteran |-> first_selection(parsed_data, "veteran", "No"),
         is_disabled |-> first_selection(parsed_data, "disabled", "No"),
         service_areas |-> <<"Business Planning & Strategy">>,
         business_summary |-> Get(parsed_data, "consultation_notes", ""),
         referral_source |-> "Economic Development Nonprofit"]

\* Variant: an attribute whose only default is the empty string is left out of
\* the record when its source was not extracted.
sparse_record(parsed_data) ==
    LET full == canonical_record(parsed_data,
                                 split_name(Get(parsed_data, "contact_name", "")))
        source == [business_name |-> "business_name", business_owner_email |-> "email",
                   business_street_address |-> "address", zip_code |-> "zip",
                   business_summary |-> "consultation_notes"]
    IN  [k \in {a \in DOMAIN full :
                   a \in DOMAIN source => source[a] \in DOMAIN parsed_data} |-> full[k]]

\* Variant: consultation_length has no default.
map_with_blank_length(parsed_data) ==
    [canonical_record(parsed_data, split_name(Get(parsed_data, "contact_name", "")))
        EXCEPT !.consultation_length = Get(parsed_data, "contact_time", "")]

map_to_smartsheet_format(parsed_data) ==
    canonical_record(parsed_data, split_name(Get(parsed_data, "contact_name", "")))

(***************************************************************************)
(* FormParser.parse_form                                                   *)
(***************************************************************************)
\* Variant: every field is stored, a field that was not found as the empty string.
RECURSIVE extract_fields_storing_all(_, _, _)
extract_fields_storing_all(names, raw_text, parsed_data) ==
    IF Len(names) = 0 THEN parsed_data
    ELSE Bind(extract_field_value(raw_text, Head(names)), LAMBDA value :
            extract_fields_storing_all(Tail(names), raw_text,
                (Head(names) :> value.v) @@ parsed_data))

\* for field_name in self.field_patterns.keys(): a value that is neither None
\* nor empty is stored under its field name.
RECURSIVE extract_fields(_, _, _)
extract_fields(names, raw_text, parsed_data) ==
    IF Len(names) = 0 THEN parsed_data
    ELSE Bind(extract_field_value(raw_text, Head(names)), LAMBDA value :
            extract_fields(Tail(names), raw_text,
                IF ~value.isNone /\ value.v # ""
                THEN (Head(names) :> value.v) @@ parsed_data
                ELSE parsed_data))

\* for field_name in self.choice_patterns.keys(): a non-empty selection list is
\* stored under its group name.
RECURSIVE extract_choices(_, _, _)
extract_choices(names, raw_text, parsed_data) ==
    IF Len(names) = 0 THEN parsed_data
    ELSE Bind(extract_checkbox_selections(raw_text, Head(names)), LAMBDA selections :
            extract_choices(Tail(names), raw_text,
                IF Len(selections) > 0
                THEN (Head(names) :> selections) @@ parsed_data
                ELSE parsed_data))

parse_failure(error) == [success |-> FALSE, error |-> error, parsed_data |-> EmptyDict]

\* The steps of parse_form's try block up to the notes: the dict of the fields
\* and choices found, and what extract_consultation_notes did.
extracted(raw_text) ==
    [data |-> extract_choices(ChoiceNames, raw_text,
                              extract_fields(FieldNames, raw_text, EmptyDict)),
     notes |-> extract_consultation_notes(raw_text)]

\* if notes: parsed_data['consultation_notes'] = notes
with_notes(parsed_data, notes) ==
    IF notes # "" THEN ("consultation_notes" :> notes) @@ parsed_data ELSE parsed_data

parse_success(parsed_data, confidence) ==
    [success |-> TRUE,
     raw_parsed_data |-> parsed_data,
     smartsheet_data |-> map_to_smartsheet_format(parsed_data),
     confidence |-> confidence]

\* Variant: no try/except around the extraction; the exception leaves parse_form.
parse_form_uncaught(ocr_result) ==
    IF ~Get(ocr_result, "success", FALSE) THEN parse_failure("OCR processing failed")
    ELSE Bind(extracted(Get(ocr_result, "raw_text", "")), LAMBDA e :
            IF e.notes.raised THEN e.notes
            ELSE parse_success(with_notes(e.data, e.notes.v),
                               Get(ocr_result, "confidence", 0)))

\* Variant: the parser keeps the fields of the page it parsed before, and a page
\* that lacks a field gets the one kept.
parse_form_carrying(ocr_result) ==
    IF ~Get(ocr_result, "success", FALSE) THEN parse_failure("OCR processing failed")
    ELSE Bind(extracted(Get(ocr_result, "raw_text", "")), LAMBDA e :
            IF e.notes.raised THEN parse_failure("Parsing failed: " \o e.notes.v)
            ELSE parse_success(
                     with_notes(e.data, e.notes.v)
                         @@ (IF Len(parsed_consultations) = 0 THEN EmptyDict
                             ELSE parsed_consultations[Len(parsed_consultations)]
                                      .raw_parsed_data),
                     Get(ocr_result, "confidence", 0)))

parse_form(ocr_result) ==
    IF ~Get(ocr_result, "success", FALSE) THEN parse_failure("OCR processing failed")
    ELSE Bind(extracted(Get(ocr_result, "raw_text", "")), LAMBDA e :
            IF e.notes.raised THEN parse_failure("Parsing failed: " \o e.notes.v)
            ELSE parse_success(with_notes(e.data, e.notes.v),
                               Get(ocr_result, "confidence", 0)))

(***************************************************************************)
(* FormParser.validate_required_fields.  The dict it is given is mutated   *)
(* in place; data is that dict after the call.                             *)
(***************************************************************************)
\* Variant: the business name is not required.
required_without_name == <<"business_owner_first_name", "consultation_date">>

required_fields == <<"business_name", "business_owner_first_name", "consultation_date">>

\* Variant: the values are compared with '' without .strip().
validate_untrimmed(smartsheet_data) ==
    LET missing_fields ==
            SelectSeq(required_fields, LAMBDA field : Get(smartsheet_data, field, "") = "")
        defaulted == Get(smartsheet_data, "consultation_length", "") = ""
    IN  [is_valid |-> Len(missing_fields) = 0,
         missing_fields |-> missing_fields,
         warnings |-> IF defaulted THEN <<"Used default consultation length: 1 hour">>
                      ELSE <<>>,
         data |-> IF defaulted
                  THEN ("consultation_length" :> "1") @@ smartsheet_data
                  ELSE smartsheet_data]

\* Variant: the required fields are also stored back with their white space
\* trimmed.
validate_trimming(smartsheet_data) ==
    LET missing_fields ==
            SelectSeq(required_fields,
                      LAMBDA field : Strip(Get(smartsheet_data, field, "")) = "")
        defaulted == Strip(Get(smartsheet_data, "consultation_length", "")) = ""
        trimmed == [k \in DOMAIN smartsheet_data |->
                       IF \E i \in 1..Len(required_fields) : required_fields[i] = k
                       THEN Strip(smartsheet_data[k]) ELSE smartsheet_data[k]]
    IN  [is_valid |-> Len(missing_fields) = 0,
         missing_fields |-> missing_fields,
         warnings |-> IF defaulted THEN <<"Used default consultation length: 1 hour">>
                      ELSE <<>>,
         data |-> IF defaulted
                  THEN ("consultation_length" :> "1") @@ trimmed
                  ELSE trimmed]

validate_required_fields(smartsheet_data) ==
    LET missing_fields ==
            SelectSeq(required_fields,
                      LAMBDA field : Strip(Get(smartsheet_data, field, "")) = "")
        defaulted == Strip(Get(smartsheet_data, "consultation_length", "")) = ""
    IN  [is_valid |-> Len(missing_fields) = 0,
         missing_fields |-> missing_fields,
         warnings |-> IF defaulted THEN <<"Used default consultation length: 1 hour">>
                      ELSE <<>>,
         data |-> IF defaulted
                  THEN ("consultation_length" :> "1") @@ smartsheet_data
                  ELSE smartsheet_data]

(***************************************************************************)
(* The inputs of the extractors: page texts of up to MaxLines of the lines *)
(* Lines, in the order of Lines.                                           *)
(***************************************************************************)
MaxLines == 2

Lines ==
    <<"Business Name: Acme Co",
      "BusinessName Bo|",
      "Zip: 60622",
      "Phone: 555-0100",
      "Type of Consultation: legal LLC",
      "X White",
      "Asian X",
      "Notes: Met with the client today",
      "Client LLC",
      "Notes: short",
      "Business Stage: X Growth Phase",
      "Contact Name: Max White",
      "Notes: Met    with    the    client",
      "Veteran: X Yes",
      "Contact Time: 2">>

\* The lines numbered in the set ls, each ended by a newline but the last.
RECURSIVE JoinLines(_)
JoinLines(ls) ==
    IF ls = {} THEN ""
    ELSE LET k == CHOOSE i \in ls : \A j \in ls : i <= j
         IN  IF ls = {k} THEN Lines[k] ELSE Lines[k] \o "\n" \o JoinLines(ls \ {k})

Texts == {JoinLines(ls) : ls \in {x \in SUBSET (1..Len(Lines)) : Cardinality(x) <= MaxLines}}

NoCall == [name |-> "none"]

NoRet == [none |-> TRUE]

\* A field or group name that is not registered.
Unregistered == "nosuch"

\* No upload being handled, no browser, and nothing sent to the CRM.
NoSinks ==
    /\ smartsheet_bot = 0
    /\ bot_driver = <<>>
    /\ sessions = <<>>
    /\ runs = <<>>
    /\ crm_requests = <<>>
    /\ crm_records = <<>>

\* No run of the workflow.
NoWorkflow ==
    /\ use_crm = FALSE
    /\ pc = "idle"
    /\ page = 0
    /\ parsed_consultations = <<>>
    /\ page_of = <<>>
    /\ parsing_result = NoRet
    /\ driver = "none"
    /\ sub = 0
    /\ smartsheet_results = <<>>
    /\ bot_log = <<>>
    /\ crm_log = <<>>
    /\ crm_results = <<>>

InitExtract == arg \in Texts /\ fn = NoCall /\ ret = NoRet /\ NoWorkflow /\ NoSinks

CallExtractField ==
    /\ fn = NoCall
    /\ \E field_name \in DOMAIN field_patterns \cup {Unregistered} :
          /\ fn' = [name |-> "extract_field_value", field_name |-> field_name]
          /\ ret' = extract_field_value(arg, field_name)
    /\ UNCHANGED <<arg, workflow_vars, sink_vars>>

CallExtractCheckbox ==
    /\ fn = NoCall
    /\ \E field_name \in DOMAIN choice_options \cup {Unregistered} :
          /\ fn' = [name |-> "extract_checkbox_selections", field_name |-> field_name]
          /\ ret' = extract_checkbox_selections(arg, field_name)
    /\ UNCHANGED <<arg, workflow_vars, sink_vars>>

CallExtractNotes ==
    /\ fn = NoCall
    /\ fn' = [name |-> "extract_consultation_notes"]
    /\ ret' = extract_consultation_notes(arg)
    /\ UNCHANGED <<arg, workflow_vars, sink_vars>>

\* The OCR results parse_form is given for the text arg: success true, false or
\* absent, confidence present or absent.
SuccessEntries == {EmptyDict, "success" :> TRUE, "success" :> FALSE}

ConfidenceEntries == {EmptyDict, "confidence" :> 85}

OcrResultsOf(text) ==
    {s @@ c @@ ("raw_text" :> text) : s \in SuccessEntries, c \in ConfidenceEntries}

CallParseForm ==
    /\ fn = NoCall
    /\ \E ocr_result \in OcrResultsOf(arg) :
          /\ fn' = [name |-> "parse_form", ocr_result |-> ocr_result]
          /\ ret' = parse_form(ocr_result)
    /\ UNCHANGED <<arg, workflow_vars, sink_vars>>

\* process_pdf_file: the canonical record of a page that parsed is validated.
CallValidateParsed ==
    /\ fn.name = "parse_form"
    /\ ret.success
    /\ fn' = [name |-> "validate_required_fields", parse_result |-> ret]
    /\ ret' = validate_required_fields(ret.smartsheet_data)
    /\ UNCHANGED <<arg, workflow_vars, sink_vars>>

NextExtract ==
    \/ CallExtractField
    \/ CallExtractCheckbox
    \/ CallExtractNotes
    \/ CallParseForm
    \/ CallValidateParsed

SpecExtract == InitExtract /\ [][NextExtract]_vars

(***************************************************************************)
(* The inputs of map_to_smartsheet_format: the dicts of up to MaxEntries   *)
(* of the entries Entries, no key twice.                                   *)
(***************************************************************************)
MaxEntries == 2

Entries ==
    << <<"business_name", "Acme Co">>,
       <<"contact_name", "Ann">>,
       <<"contact_name", "Ann Lee Poe">>,
       <<"contact_name", " Ann  Lee\tPoe ">>,
       <<"contact_name", "  ">>,
       <<"email", "ann@acme.co">>,
       <<"address", "26OO W Division St">>,
       <<"city", "Evanston">>,
       <<"zip", "6O622">>,
       <<"phone", "555-O1OO">>,
       <<"session_date", "7/8/25">>,
       <<"session_date", "O7/O8/2O25">>,
       <<"contact_time", "2">>,
       <<"business_structure", "LLC">>,
       <<"years_in_business", "3">>,
       <<"full_time_employees", "5">>,
       <<"consultation_notes", "Met with the client today">>,
       <<"language", <<"Spanish">> >>,
       <<"business_stage", <<"Start up Phase">> >>,
       <<"business_stage", <<"Growth Phase", "Expansion Phase">> >>,
       <<"business_stage", <<"Pre-seed">> >>,
       <<"business_presence", <<"Home based">> >>,
       <<"race", <<"Asian", "White">> >>,
       <<"ethnicity", <<"Other">> >>,
       <<"veteran", <<"Yes">> >>,
       <<"disabled", <<"Yes", "No">> >> >>

\* The sets of at most n indices of Entries.
RECURSIVE EntrySets(_)
EntrySets(n) ==
    IF n = 0 THEN {{}}
    ELSE EntrySets(n - 1) \cup
         {es \cup {e} : es \in EntrySets(n - 1), e \in 1..Len(Entries)}

\* The dict of the entries numbered in es.
DictOf(es) ==
    [key \in {Entries[e][1] : e \in es} |->
        Entries[CHOOSE e \in es : Entries[e][1] = key][2]]

ExtractedInputs ==
    {DictOf(es) : es \in {x \in EntrySets(MaxEntries) :
                             \A d, e \in x : Entries[d][1] = Entries[e][1] => d = e}}

InitMap == arg \in ExtractedInputs /\ fn = NoCall /\ ret = NoRet /\ NoWorkflow /\ NoSinks

CallMap ==
    /\ fn = NoCall
    /\ fn' = [name |-> "map_to_smartsheet_format"]
    /\ ret' = map_to_smartsheet_format(arg)
    /\ UNCHANGED <<arg, workflow_vars, sink_vars>>

NextMap == CallMap

SpecMap == InitMap /\ [][NextMap]_vars

(***************************************************************************)
(* The inputs of validate_required_fields: canonical records whose         *)
(* required fields and consultation length are empty, blank or filled.     *)
(***************************************************************************)
FieldStates == {"", " \t ", "x"}

CanonicalInputs ==
    {[map_to_smartsheet_format(EmptyDict) EXCEPT
         !.business_name = a, !.business_owner_first_name = b,
         !.consultation_date = c, !.consultation_length = d] :
        a \in FieldStates, b \in FieldStates, c \in FieldStates, d \in FieldStates}

InitValidate == arg \in CanonicalInputs /\ fn = NoCall /\ ret = NoRet /\ NoWorkflow /\ NoSinks

CallValidate ==
    /\ fn = NoCall
    /\ fn' = [name |-> "validate_required_fields"]
    /\ ret' = validate_required_fields(arg)
    /\ UNCHANGED <<arg, workflow_vars, sink_vars>>

NextValidate == CallValidate

SpecValidate == InitValidate /\ [][NextValidate]_vars

(***************************************************************************)
(* The inputs of parse_date: month, day and year numerals joined by one    *)
(* of the two separators, and some strings that are no dates.              *)
(***************************************************************************)
DayMonthTexts == {"3", "04", "13", "31", "2", "29"}

YearTexts == {"2025", "2024", "0999", "25"}

DateTexts ==
    {a \o sep \o b \o sep \o y :
        a \in DayMonthTexts, b \in DayMonthTexts, sep \in {"/", "-"}, y \in YearTexts}
    \cup {"", "   ", " 03/04/2025 ", "03/04/2025", "12/31/0999", "O7/O8/2O25",
          " 7/8/2O25\t", "3/4-2025", "next week"}

InitDate == arg \in DateTexts /\ fn = NoCall /\ ret = NoRet /\ NoWorkflow /\ NoSinks

\* parse_date(arg) on either kind of C library.
CallParseDate ==
    /\ fn = NoCall
    /\ \E pads_year \in BOOLEAN :
          /\ fn' = [name |-> "parse_date", pads_year |-> pads_year]
          /\ ret' = parse_date_with(arg, pads_year)
    /\ UNCHANGED <<arg, workflow_vars, sink_vars>>

\* datetime.strptime(arg.strip(), fmt) for one of parse_date's formats.
CallStrptime ==
    /\ fn = NoCall
    /\ \E k \in 1..Len(date_formats) :
          /\ fn' = [name |-> "strptime", format |-> k]
          /\ ret' = strptime(Strip(arg), date_formats[k])
    /\ UNCHANGED <<arg, workflow_vars, sink_vars>>

\* map_to_smartsheet_format of a page on which arg was extracted as the session
\* date, with a business name and a contact name.
CallMapDate ==
    /\ fn = NoCall
    /\ fn' = [name |-> "map_to_smartsheet_format",
              parsed_data |-> [business_name |-> "Acme Co", contact_name |-> "Ann Lee",
                               session_date |-> arg]]
    /\ ret' = map_to_smartsheet_format(fn'.parsed_data)
    /\ UNCHANGED <<arg, workflow_vars, sink_vars>>

\* validate_required_fields of the record just mapped, as process_pdf_file
\* calls it on parse_form's smartsheet_data.
CallValidateDate ==
    /\ fn.name = "map_to_smartsheet_format"
    /\ fn' = [name |-> "validate_required_fields", smartsheet_data |-> ret]
    /\ ret' = validate_required_fields(ret)
    /\ UNCHANGED <<arg, workflow_vars, sink_vars>>

NextDate == CallParseDate \/ CallStrptime \/ CallMapDate \/ CallValidateDate

SpecDate == InitDate /\ [][NextDate]_vars

(***************************************************************************)
(* main_app.py: ConsultationAutomation.                                    *)
(***************************************************************************)
\* The consultation process_pdf_file appends for a parsed page: parsed_result
\* with its validation; validate_required_fields is given the smartsheet_data
\* dict itself, so what it fills in place is in the consultation too.
consultation_of(parsed_result) ==
    Bind(validate_required_fields(parsed_result.smartsheet_data), LAMBDA validated :
        [success |-> TRUE,
         raw_parsed_data |-> parsed_result.raw_parsed_data,
         smartsheet_data |-> validated.data,
         confidence |-> parsed_result.confidence,
         validation |-> validated])

\* Variant: a page that fails discards the consultations parsed before it.
parse_page_discarding(consultations, ocr_result) ==
    IF ocr_result.success
    THEN Bind(parse_form(ocr_result), LAMBDA parsed_result :
            IF parsed_result.success
            THEN Append(consultations, consultation_of(parsed_result))
            ELSE <<>>)
    ELSE <<>>

\* process_pdf_file: the body of the loop over ocr_results.
parse_page(consultations, ocr_result) ==
    IF ocr_result.success
    THEN Bind(parse_form(ocr_result), LAMBDA parsed_result :
            IF parsed_result.success
            THEN Append(consultations, consultation_of(parsed_result))
            ELSE consultations)
    ELSE consultations

\* str() of a list of strings
RECURSIVE list_items(_)
list_items(l) ==
    IF Len(l) = 0 THEN ""
    ELSE IF Len(l) = 1 THEN "'" \o l[1] \o "'"
    ELSE "'" \o l[1] \o "', " \o list_items(Tail(l))

list_str(l) == "[" \o list_items(l) \o "]"

\* Variant: no consultation is skipped.
never_skipped(validation) == FALSE

\* process_smartsheet_submissions: not validation.get('is_valid', True)
skipped(validation) == ~Get(validation, "is_valid", TRUE)

\* The result recorded for a consultation that is skipped.
skip_result(consultation) ==
    [success |-> FALSE,
     business_name |-> Get(consultation.smartsheet_data, "business_name", "Unknown"),
     error |-> "Missing required fields: "
               \o list_str(Get(consultation.validation, "missing_fields", <<>>)),
     skipped |-> TRUE]

\* SmartsheetBot.process_consultation: the form was submitted, the wait for the
\* review timed out, or filling the form raised; the counts of the fields
\* filled are left out.
process_consultation(form_data, outcome) ==
    IF outcome = "error"
    THEN [success |-> FALSE,
          business_name |-> Get(form_data, "business_name", "Unknown Business"),
          error |-> "WebDriverException",
          submitted |-> FALSE]
    ELSE [success |-> outcome = "submitted",
          business_name |-> Get(form_data, "business_name", "Unknown Business"),
          submitted |-> outcome = "submitted"]

\* Variant: every consultation that was not skipped goes to the CRM.
not_skipped(results) ==
    SelectSeq([i \in 1..Len(results) |-> i],
              LAMBDA i : ~Get(results[i], "skipped", FALSE))

\* SmartsheetBot.process_batch: the seconds slept after consultation i of n, 10
\* but after the last.  process_smartsheet_submissions does not call it.
batch_cooldown(i, n) == IF i < n THEN 10 ELSE 0

\* process_smartsheet_submissions: the seconds its loop sleeps after
\* consultation i of n before the next turn; the loop has no time.sleep.
cooldown(i, n) == 0

\* run_complete_workflow: the indices of the consultations whose Smartsheet
\* result has success.
successful(results) ==
    SelectSeq([i \in 1..Len(results) |-> i],
              LAMBDA i : Get(results[i], "success", FALSE))

(***************************************************************************)
(* The inputs of the workflow: PDFs of up to MaxPages pages, each page one *)
(* of four OCR results: the page of the Acme scenario, a page with all     *)
(* required fields, a page whose notes make the parser raise, and a page   *)
(* whose OCR failed.                                                       *)
(***************************************************************************)
MaxPages == 2

AcmeText == "Business Name: Acme Co\nZip: 60622\nSession Date: 07/08/2025"

\* A page with a contact name and a session date and no Business Name line.
NamelessText == "Contact Name: Ann Lee\nSession Date: 7/8/25"

PageKinds == {"acme", "complete", "nameless", "raising", "failed"}

ocr_page(kind, n) ==
    IF kind = "failed"
    THEN [success |-> FALSE, error |-> "OCR failed", page_number |-> n]
    ELSE [success |-> TRUE,
          raw_text |->
              IF kind = "acme" THEN AcmeText
              ELSE IF kind = "nameless" THEN NamelessText
              ELSE IF kind = "complete"
              THEN "Business Name: Acme Co\nContact Name: Ann Lee\nSession Date: 7/8/25"
              ELSE "Business Name: Acme Co\nMet with owner",
          confidence |-> 85,
          page_number |-> n]

OcrInputs ==
    {[n \in 1..Len(kinds) |-> ocr_page(kinds[n], n)] :
        kinds \in UNION {[1..len -> PageKinds] : len \in 0..MaxPages}}

Init ==
    /\ arg \in OcrInputs
    /\ fn = [name |-> "run_complete_workflow"]
    /\ ret = NoRet
    /\ use_crm \in BOOLEAN
    /\ pc = "ocr"
    /\ page = 1
    /\ parsed_consultations = <<>>
    /\ page_of = <<>>
    /\ parsing_result = NoRet
    /\ driver = "none"
    /\ sub = 1
    /\ smartsheet_results = <<>>
    /\ bot_log = <<>>
    /\ crm_log = <<>>
    /\ crm_results = <<>>
    /\ NoSinks

\* process_pdf_file returns a failure, and run_complete_workflow returns it.
parsing_failed(error, stage) ==
    /\ parsing_result' = [success |-> FALSE, error |-> error, stage |-> stage]
    /\ ret' = parsing_result'
    /\ pc' = "done"

\* process_pdf_file, step 1: the OCR results are there; none at all is a failure.
StartParsing ==
    /\ pc = "ocr"
    /\ IF Len(arg) = 0
       THEN parsing_failed("OCR processing failed - no pages processed", "ocr")
       ELSE pc' = "parse" /\ UNCHANGED <<parsing_result, ret>>
    /\ UNCHANGED sink_vars
    /\ UNCHANGED <<arg, fn, use_crm, page, parsed_consultations, page_of, driver, sub,
                   smartsheet_results, bot_log, crm_log, crm_results>>

\* process_pdf_file, step 2: one turn of the loop over ocr_results.
ParsePage ==
    /\ pc = "parse"
    /\ page <= Len(arg)
    /\ parsed_consultations' = parse_page(parsed_consultations, arg[page])
    /\ page_of' = IF Len(parsed_consultations') > Len(parsed_consultations)
                  THEN Append(page_of, page) ELSE page_of
    /\ page' = page + 1
    /\ UNCHANGED sink_vars
    /\ UNCHANGED <<arg, fn, ret, use_crm, pc, parsing_result, driver, sub,
                   smartsheet_results, bot_log, crm_log, crm_results>>

\* process_pdf_file after the loop: a failure when nothing was parsed; else the
\* parsed data is saved to a file, and an exception of that (saved = FALSE) is
\* caught and turned into a failure of stage 'error'.
FinishParsing ==
    /\ pc = "parse"
    /\ page > Len(arg)
    /\ IF Len(parsed_consultations) = 0
       THEN parsing_failed("No consultations could be parsed successfully", "parsing")
       ELSE \E saved \in BOOLEAN :
               IF saved
               THEN /\ parsing_result' =
                          [success |-> TRUE,
                           consultations |-> parsed_consultations,
                           total_consultations |-> Len(parsed_consultations),
                           stage |-> "parsing_complete"]
                    /\ pc' = "smartsheet"
                    /\ UNCHANGED ret
               ELSE parsing_failed("OSError", "error")
    /\ UNCHANGED sink_vars
    /\ UNCHANGED <<arg, fn, use_crm, page, parsed_consultations, page_of, driver, sub,
                   smartsheet_results, bot_log, crm_log, crm_results>>

\* process_smartsheet_submissions: a new bot, and start_browser; when that
\* raises (started = FALSE) the bot has no driver, stop_browser does nothing and
\* the exception leaves run_complete_workflow.
StartBrowser ==
    /\ pc = "smartsheet"
    /\ \E started \in BOOLEAN :
          IF started
          THEN driver' = "open" /\ pc' = "submit" /\ UNCHANGED ret
          ELSE driver' = "none" /\ pc' = "done" /\ ret' = Raised("WebDriverException")
    /\ UNCHANGED sink_vars
    /\ UNCHANGED <<arg, fn, use_crm, page, parsed_consultations, page_of,
                   parsing_result, sub, smartsheet_results, bot_log, crm_log, crm_results>>

\* process_smartsheet_submissions: one turn of the loop over the consultations.
Submit ==
    /\ pc = "submit"
    /\ sub <= Len(parsing_result.consultations)
    /\ LET consultation == parsing_result.consultations[sub]
       IN  IF skipped(Get(consultation, "validation", EmptyDict))
           THEN /\ smartsheet_results' =
                      Append(smartsheet_results, skip_result(consultation))
                /\ UNCHANGED bot_log
           ELSE \E outcome \in {"submitted", "timeout", "error"} :
                   /\ bot_log' =
                         Append(bot_log,
                                [index |-> sub,
                                 form_data |-> consultation.smartsheet_data,
                                 slept_after |->
                                     cooldown(sub, Len(parsing_result.consultations))])
                   /\ smartsheet_results' =
                         Append(smartsheet_results,
                                process_consultation(consultation.smartsheet_data, outcome))
    /\ sub' = sub + 1
    /\ UNCHANGED sink_vars
    /\ UNCHANGED <<arg, fn, ret, use_crm, pc, page, parsed_consultations, page_of,
                   parsing_result, driver, crm_log, crm_results>>

\* process_smartsheet_submissions: the loop is over, finally: stop_browser.
StopBrowser ==
    /\ pc = "submit"
    /\ sub > Len(parsing_result.consultations)
    /\ driver' = "closed"
    /\ pc' = "crm"
    /\ UNCHANGED sink_vars
    /\ UNCHANGED <<arg, fn, ret, use_crm, page, parsed_consultations, page_of,
                   parsing_result, sub, smartsheet_results, bot_log, crm_log, crm_results>>

\* run_complete_workflow, step 4: with use_crm the consultations whose
\* Smartsheet result has success go to process_crm_integration and batch_sync,
\* which syncs them one by one, each sync succeeding or not.
CrmIntegration ==
    /\ pc = "crm"
    /\ LET consultations == parsing_result.consultations
           chosen == successful(smartsheet_results)
       IN  IF use_crm /\ Len(chosen) > 0
           THEN \E synced \in [1..Len(chosen) -> BOOLEAN] :
                   /\ crm_log' =
                         [k \in 1..Len(chosen) |->
                             [index |-> chosen[k],
                              form_data |-> consultations[chosen[k]].smartsheet_data]]
                   /\ crm_results' =
                         [k \in 1..Len(chosen) |->
                             [business_name |->
                                  Get(consultations[chosen[k]].smartsheet_data,
                                      "business_name", "Unknown Business"),
                              crm_sync_success |-> synced[k]]]
           ELSE UNCHANGED <<crm_log, crm_results>>
    /\ pc' = "save"
    /\ UNCHANGED sink_vars
    /\ UNCHANGED <<arg, fn, ret, use_crm, page, parsed_consultations, page_of,
                   parsing_result, driver, sub, smartsheet_results, bot_log>>

\* run_complete_workflow: the final result is compiled, saved and returned; an
\* exception of the save (saved = FALSE) leaves run_complete_workflow.
SaveResults ==
    /\ pc = "save"
    /\ \E saved \in BOOLEAN :
          ret' = IF saved
                 THEN [success |-> TRUE,
                       total_pages |-> Len(parsing_result.consultations),
                       parsing_results |-> parsing_result,
                       smartsheet_results |-> smartsheet_results,
                       crm_results |-> crm_results]
                 ELSE Raised("OSError")
    /\ pc' = "done"
    /\ UNCHANGED sink_vars
    /\ UNCHANGED <<arg, fn, use_crm, page, parsed_consultations, page_of,
                   parsing_result, driver, sub, smartsheet_results, bot_log, crm_log,
                   crm_results>>

Next ==
    \/ StartParsing
    \/ ParsePage
    \/ FinishParsing
    \/ StartBrowser
    \/ Submit
    \/ StopBrowser
    \/ CrmIntegration
    \/ SaveResults

Spec == Init /\ [][Next]_vars

(***************************************************************************)
(* Uploads handled at the same time.  main() makes one                     *)
(* ConsultationAutomation and serves it with app.run, whose server handles *)
(* each request in a thread of its own; every upload_file calls            *)
(* run_complete_workflow of that one instance, and so                      *)
(* process_smartsheet_submissions, whose steps interleave.  A run is       *)
(*   pc       where the call is: "new", "start", "loop", "submitting",     *)
(*            "finally" or "returned"                                      *)
(*   total    the number of its consultations                              *)
(*   index    the consultation its loop is at                              *)
(*   bot      the bot it made, started the session it started, using the   *)
(*            bot whose process_consultation it is in, stopped the session *)
(*            its stop_browser quit (0 for none)                           *)
(*   raised   whether start_browser raised                                 *)
(***************************************************************************)
MaxRuns == 2

Runs == 1..MaxRuns

NewRun(total) ==
    [pc |-> "new", total |-> total, index |-> 1, bot |-> 0, started |-> 0, using |-> 0,
     stopped |-> 0, raised |-> FALSE]

InitUploads ==
    /\ arg \in [Runs -> 1..MaxPages]
    /\ fn = [name |-> "upload_file"]
    /\ ret = NoRet
    /\ NoWorkflow
    /\ smartsheet_bot = 0
    /\ bot_driver = <<>>
    /\ sessions = <<>>
    /\ runs = [r \in Runs |-> NewRun(arg[r])]
    /\ crm_requests = <<>>
    /\ crm_records = <<>>

\* self.smartsheet_bot = SmartsheetBot(headless=False): a new bot, with no
\* driver, replaces the one the instance referred to.
RunCreatesBot ==
    \E r \in Runs :
        /\ runs[r].pc = "new"
        /\ bot_driver' = Append(bot_driver, 0)
        /\ smartsheet_bot' = Len(bot_driver) + 1
        /\ runs' = [runs EXCEPT ![r].pc = "start", ![r].bot = Len(bot_driver) + 1]
        /\ UNCHANGED sessions
        /\ UNCHANGED <<arg, fn, ret, workflow_vars, crm_requests, crm_records>>

\* self.smartsheet_bot.start_browser(): the bot the instance refers to now gets
\* a new browser session as its driver; when webdriver.Chrome raises (started =
\* FALSE) the exception goes to the finally clause.
RunStartsBrowser ==
    \E r \in Runs :
        /\ runs[r].pc = "start"
        /\ \E started \in BOOLEAN :
              IF started
              THEN /\ sessions' = Append(sessions, "open")
                   /\ bot_driver' = [bot_driver EXCEPT ![smartsheet_bot] = Len(sessions) + 1]
                   /\ runs' = [runs EXCEPT ![r].pc = "loop", ![r].started = Len(sessions) + 1]
              ELSE /\ runs' = [runs EXCEPT ![r].pc = "finally", ![r].raised = TRUE]
                   /\ UNCHANGED <<sessions, bot_driver>>
        /\ UNCHANGED smartsheet_bot
        /\ UNCHANGED <<arg, fn, ret, workflow_vars, crm_requests, crm_records>>

\* One turn of the loop: a consultation that is not valid is skipped; a valid
\* one is handed to process_consultation of the bot the instance refers to now.
RunCallsBot ==
    \E r \in Runs :
        /\ runs[r].pc = "loop"
        /\ runs[r].index <= runs[r].total
        /\ \E valid \in BOOLEAN :
              runs' = IF valid
                      THEN [runs EXCEPT ![r].pc = "submitting", ![r].using = smartsheet_bot]
                      ELSE [runs EXCEPT ![r].index = @ + 1]
        /\ UNCHANGED <<smartsheet_bot, bot_driver, sessions>>
        /\ UNCHANGED <<arg, fn, ret, workflow_vars, crm_requests, crm_records>>

\* process_consultation returns its result, a failure when the browser raised,
\* and the loop goes on.
BotReturns ==
    \E r \in Runs :
        /\ runs[r].pc = "submitting"
        /\ runs' = [runs EXCEPT ![r].pc = "loop", ![r].index = @ + 1, ![r].using = 0]
        /\ UNCHANGED <<smartsheet_bot, bot_driver, sessions>>
        /\ UNCHANGED <<arg, fn, ret, workflow_vars, crm_requests, crm_records>>

\* finally: if self.smartsheet_bot: self.smartsheet_bot.stop_browser(), which
\* quits the driver of the bot the instance refers to now, if it has one.
RunStopsBrowser ==
    \E r \in Runs :
        /\ \/ runs[r].pc = "loop" /\ runs[r].index > runs[r].total
           \/ runs[r].pc = "finally"
        /\ LET session == IF smartsheet_bot = 0 THEN 0 ELSE bot_driver[smartsheet_bot]
           IN  /\ sessions' = IF session = 0 THEN sessions
                              ELSE [sessions EXCEPT ![session] = "quit"]
               /\ runs' = [runs EXCEPT ![r].pc = "returned", ![r].stopped = session]
        /\ UNCHANGED <<smartsheet_bot, bot_driver>>
        /\ UNCHANGED <<arg, fn, ret, workflow_vars, crm_requests, crm_records>>

NextUploads ==
    \/ RunCreatesBot
    \/ RunStartsBrowser
    \/ RunCallsBot
    \/ BotReturns
    \/ RunStopsBrowser

SpecUploads == InitUploads /\ [][NextUploads]_vars

(***************************************************************************)
(* crm_integration.py: CRMIntegration.sync_consultation_data, with the     *)
(* n8n webhook or the Twenty API.  What a POST does:                       *)
(*   "created"      2xx with a JSON object: the record exists              *)
(*   "refused"      an error status: raise_for_status raises, no record    *)
(*   "unreachable"  no connection or a timeout before the server acted     *)
(*   "lost"         the server made the record and the response timed out  *)
(*   "garbled"      2xx with a body that is no JSON: the record exists and *)
(*                  response.json() raises                                 *)
(***************************************************************************)
Outcomes == {"created", "refused", "unreachable", "lost", "garbled"}

\* Whether the server made the record.
Stored(outcome) == outcome \in {"created", "lost", "garbled"}

\* The form data synced: the canonical records of the pages of the workflow,
\* and a record with no business name.
CrmInputs ==
    {consultation_of(parse_form(ocr_page(kind, 1))).smartsheet_data :
        kind \in {"acme", "complete", "nameless"}}
        \cup {"business_owner_first_name" :> "Ann"}

\* format_data_for_crm, the parts sent to Twenty.
format_data_for_crm(form_data) ==
    [company |-> [name |-> Get(form_data, "business_name", "")],
     contact |-> [fullName |-> Strip(Get(form_data, "business_owner_first_name", "")
                                      \o " "
                                      \o Get(form_data, "business_owner_last_name", ""))],
     consultation |-> [summary |-> Get(form_data, "business_summary", ""),
                       status |-> "Completed"]]

\* What sync_consultation_data returns: result is what the send returned;
\* formatted_data is None when an exception reached its own handler.
sync_result(form_data, result, formatted) ==
    [business_name |-> Get(form_data, "business_name", "Unknown Business"),
     crm_sync_success |-> result.success,
     crm_response |-> result,
     formatted_data |-> IF formatted THEN Some(format_data_for_crm(form_data)) ELSE None]

\* What a send returns after a POST: the error of the exception, or success.
\* An exception that is no RequestException (in_handler = FALSE) passes
\* send_to_twenty_crm_direct and is caught by sync_consultation_data.
send_result(form_data, outcome, in_handler) ==
    IF outcome = "created"
    THEN sync_result(form_data, [success |-> TRUE], TRUE)
    ELSE IF in_handler
    THEN sync_result(form_data, [success |-> FALSE, error |-> outcome], TRUE)
    ELSE [sync_result(form_data, [success |-> FALSE, error |-> outcome], FALSE)
             EXCEPT !.crm_response = [error |-> outcome]]

\* Variant: the next request is sent whatever the previous one did.
after_post_regardless(step, outcome) ==
    IF step = "company" THEN "contact"
    ELSE IF step = "contact" THEN "activity"
    ELSE "done"

\* send_to_twenty_crm_direct: where the call goes after the POST of a step:
\* raise_for_status and json() leave the try block unless the record was
\* created and read.
after_post(step, outcome) ==
    IF outcome # "created" THEN "done"
    ELSE IF step = "company" THEN "contact"
    ELSE IF step = "contact" THEN "activity"
    ELSE "done"

InitCrm ==
    /\ arg \in CrmInputs
    /\ fn \in {[name |-> "sync_consultation_data", use_n8n |-> u, n8n_webhook_url |-> w,
                twenty_api_url |-> t] : u \in BOOLEAN, w \in BOOLEAN, t \in BOOLEAN}
    /\ ret = NoRet
    /\ use_crm = TRUE
    /\ pc = "sync"
    /\ page = 0
    /\ parsed_consultations = <<>>
    /\ page_of = <<>>
    /\ parsing_result = NoRet
    /\ driver = "none"
    /\ sub = 0
    /\ smartsheet_results = <<>>
    /\ bot_log = <<>>
    /\ crm_log = <<>>
    /\ crm_results = <<>>
    /\ NoSinks

crm_unchanged ==
    <<arg, fn, use_crm, page, parsed_consultations, page_of, parsing_result, driver, sub,
      smartsheet_results, bot_log, crm_log, crm_results, smartsheet_bot, bot_driver,
      sessions, runs>>

\* sync_consultation_data up to the first request: the data is formatted, and
\* the send that use_n8n selects returns at once when its URL is not configured.
CallSync ==
    /\ pc = "sync"
    /\ IF fn.use_n8n
       THEN IF fn.n8n_webhook_url
            THEN pc' = "n8n" /\ UNCHANGED ret
            ELSE /\ pc' = "done"
                 /\ ret' = sync_result(arg, [success |-> FALSE,
                                             error |-> "n8n webhook URL not configured"],
                                       TRUE)
       ELSE IF fn.twenty_api_url
            THEN pc' = "company" /\ UNCHANGED ret
            ELSE /\ pc' = "done"
                 /\ ret' = sync_result(arg, [success |-> FALSE,
                                             error |-> "Twenty CRM API URL not configured"],
                                       TRUE)
    /\ UNCHANGED <<crm_requests, crm_records>>
    /\ UNCHANGED crm_unchanged

\* send_to_n8n_workflow: one POST of the whole payload to the webhook; an empty
\* body is accepted, so a body is read only when there is one.
PostWebhook ==
    /\ pc = "n8n"
    /\ \E outcome \in Outcomes, in_handler \in BOOLEAN :
          /\ outcome = "garbled" \/ in_handler
          /\ crm_requests' = Append(crm_requests,
                                    [method |-> "POST", path |-> "webhook",
                                     json |-> format_data_for_crm(arg),
                                     outcome |-> outcome])
          /\ ret' = send_result(arg, outcome, in_handler)
    /\ pc' = "done"
    /\ UNCHANGED crm_records
    /\ UNCHANGED crm_unchanged

\* The identifier of the record of a kind made last, 0 when there is none.
last_id(kind) ==
    IF \E i \in 1..Len(crm_records) : crm_records[i].kind = kind
    THEN CHOOSE i \in 1..Len(crm_records) :
             /\ crm_records[i].kind = kind
             /\ \A j \in (i + 1)..Len(crm_records) : crm_records[j].kind # kind
    ELSE 0

\* One POST of send_to_twenty_crm_direct: the request goes out, the server makes
\* the record or not, and the call goes on to the next request or returns.
\* json() of a body that is no JSON raises a RequestException in a recent
\* requests and a plain ValueError in an older one (in_handler).
post(step, path, body) ==
    /\ \E outcome \in Outcomes, in_handler \in BOOLEAN :
          /\ outcome = "garbled" \/ in_handler
          /\ crm_requests' = Append(crm_requests,
                                    [method |-> "POST", path |-> path, json |-> body,
                                     outcome |-> outcome])
          /\ crm_records' = IF Stored(outcome)
                            THEN Append(crm_records, [kind |-> step, json |-> body])
                            ELSE crm_records
          /\ pc' = after_post(step, outcome)
          /\ ret' = IF pc' = "done" THEN send_result(arg, outcome, in_handler) ELSE ret
    /\ UNCHANGED crm_unchanged

PostCompany ==
    /\ pc = "company"
    /\ post("company", "/companies", format_data_for_crm(arg).company)

PostContact ==
    /\ pc = "contact"
    /\ post("contact", "/contacts",
            format_data_for_crm(arg).contact @@ [companyId |-> last_id("company")])

PostActivity ==
    /\ pc = "activity"
    /\ post("activity", "/activities",
            format_data_for_crm(arg).consultation
                @@ [companyId |-> last_id("company"), contactId |-> last_id("contact")])

NextCrm == CallSync \/ PostWebhook \/ PostCompany \/ PostContact \/ PostActivity

SpecCrm == InitCrm /\ [][NextCrm]_vars

(***************************************************************************)
(* Properties of the extractors, checked under SpecExtract.                *)
(***************************************************************************)
\* C2: for the numeric fields zip and phone the value returned is the matched
\* value with its whitespace normalized and nothing else changed: no character
\* is substituted, every digit (0 included) comes back as that same digit.
NumericFieldsKeepDigits ==
    (fn.name = "extract_field_value" /\ fn.field_name \in {"zip", "phone"}) =>
        LET value == first_match(field_patterns[fn.field_name], arg)
        IN  ~value.isNone => ret = Some(CollapseWS(Strip(value.v)))

\* C6: extract_field_value returns the normalized value of the earliest pattern
\* of the field, in declaration order, that matches the text (its group when
\* it has one, else the whole match), never the value of a later one; it
\* returns None when no pattern matches or the field name is not registered.
FirstPatternWins ==
    fn.name = "extract_field_value" =>
        LET patterns == Get(field_patterns, fn.field_name, <<>>)
            hits == {k \in 1..Len(patterns) : Search(patterns[k], arg).ok}
        IN  IF hits = {} THEN ret = None
            ELSE LET k == CHOOSE h \in hits : \A j \in hits : h <= j
                     m == Search(patterns[k], arg)
                 IN  ret = Some(clean_text(IF HasGroup(patterns[k])
                                           THEN Group1(arg, m) ELSE Group0(arg, m)))

\* Both patterns of type_of_consultation match and would give different values
\* ("legal LLC" by the first, "legal" by the second); the first one's is returned.
FirstPatternWinsWitness ==
    /\ fn.name = "extract_field_value"
    /\ fn.field_name = "type_of_consultation"
    /\ Search(field_patterns.type_of_consultation[1], arg).ok
    /\ Search(field_patterns.type_of_consultation[2], arg).ok
    /\ Group0(arg, Search(field_patterns.type_of_consultation[2], arg)) = "legal"
    /\ ret = Some("legal LLC")

\* C7: extract_consultation_notes returns a string for every text, it never
\* raises.
NotesNeverRaises ==
    fn.name = "extract_consultation_notes" => ~ret.raised

\* C8: parse_form always returns one of its two shapes: the failure shape with
\* an empty parsed_data when the OCR result is not marked successful (then with
\* the error "OCR processing failed") or when the extraction raises; otherwise
\* the success shape whose confidence is the OCR result's, 0 when absent.
ParseFormShapes ==
    fn.name = "parse_form" =>
        LET ocr_ok == Get(fn.ocr_result, "success", FALSE)
            raises == extract_consultation_notes(arg).raised
        IN  /\ DOMAIN ret \in {{"success", "error", "parsed_data"},
                               {"success", "raw_parsed_data", "smartsheet_data",
                                "confidence"}}
            /\ ret.success \in BOOLEAN
            /\ ret.success = (ocr_ok /\ ~raises)
            /\ ~ocr_ok => ret = [success |-> FALSE, error |-> "OCR processing failed",
                                 parsed_data |-> EmptyDict]
            /\ ~ret.success =>
                  /\ DOMAIN ret = {"success", "error", "parsed_data"}
                  /\ ret.parsed_data = EmptyDict
            /\ ret.success =>
                  /\ DOMAIN ret = {"success", "raw_parsed_data", "smartsheet_data",
                                   "confidence"}
                  /\ ret.confidence = Get(fn.ocr_result, "confidence", 0)

\* A successful OCR result whose extraction raises comes back as a failure.
ParseFormShapesWitness ==
    /\ fn.name = "parse_form"
    /\ Get(fn.ocr_result, "success", FALSE)
    /\ extract_consultation_notes(arg).raised
    /\ ret = parse_failure("Parsing failed: no such group")

\* C10: extract_checkbox_selections returns options registered for the group
\* only, each at most once and in the registered order whatever their order in
\* the text; for a group that is not registered it returns the empty list.
SelectionsInRegisteredOrder ==
    fn.name = "extract_checkbox_selections" =>
        IF fn.field_name \notin DOMAIN choice_options THEN ret = <<>>
        ELSE LET options == choice_options[fn.field_name]
                 registered(o) == \E k \in 1..Len(options) : options[k] = o
                 index(o) == CHOOSE k \in 1..Len(options) : options[k] = o
             IN  /\ \A i \in 1..Len(ret) : registered(ret[i])
                 /\ \A i, j \in 1..Len(ret) : i < j => index(ret[i]) < index(ret[j])

\* White is marked before Asian in the text, Asian is registered before White.
SelectionsInRegisteredOrderWitness ==
    /\ fn.name = "extract_checkbox_selections"
    /\ fn.field_name = "race"
    /\ arg = "X White\nAsian X"
    /\ ret = <<"Asian", "White">>

(***************************************************************************)
(* Properties of the mapper and the validator, checked under SpecMap and   *)
(* SpecValidate.                                                           *)
(***************************************************************************)
\* The record documented for an input with nothing extracted.
DocumentedDefaults ==
    [delegate_agency |-> "Puerto Rican Cultural Center (PRCC)",
     vendor_id |-> "1055031",
     program |-> "Place-based Business Specialist",
     submitted_by |-> "wesleyo@prcc-chgo.org",
     reporting_month |-> "August",
     business_name |-> "",
     business_owner_first_name |-> "",
     business_owner_last_name |-> "",
     business_owner_email |-> "",
     business_street_address |-> "",
     city |-> "Chicago",
     state |-> "IL",
     zip_code |-> "",
     consultation_date |-> "",
     consultation_length |-> "1",
     consultation_language |-> "English",
     business_stage |-> "Growth Phase",
     business_structure |-> "Limited Liability Company",
     business_presence |-> "Brick & Mortar",
     years_in_business |-> "2 to 5 years",
     employee_count |-> "2 employees",
     race |-> "Prefer not to answer",
     ethnicity |-> "Prefer not to answer",
     gender |-> "Prefer not to answer",
     is_veteran |-> "No",
     is_disabled |-> "No",
     service_areas |-> <<"Business Planning & Strategy">>,
     business_summary |-> "",
     referral_source |-> "Economic Development Nonprofit"]

\* C3: missing_fields is the subsequence of (business_name,
\* business_owner_first_name, consultation_date), in that order and without
\* duplicates, of exactly the fields whose value is empty once its white space
\* is trimmed; is_valid holds iff missing_fields is empty, warning or not.
MissingFieldsExact ==
    fn.name = "validate_required_fields" =>
        LET order == <<"business_name", "business_owner_first_name", "consultation_date">>
            blank(v) == \A i \in 1..Len(v) : Ch(v, i) \in WS
            at(f) == CHOOSE k \in 1..3 : order[k] = f
            missing == ret.missing_fields
        IN  /\ \A i \in 1..Len(missing) : \E k \in 1..3 : order[k] = missing[i]
            /\ \A i, j \in 1..Len(missing) : i < j => at(missing[i]) < at(missing[j])
            /\ \A k \in 1..3 :
                  (\E i \in 1..Len(missing) : missing[i] = order[k]) <=> blank(arg[order[k]])
            /\ ret.is_valid <=> (missing = <<>>)

\* A blank (white space only) business name and an empty date are reported, in
\* order, the filled first name is not, and a warning was produced.
MissingFieldsExactWitness ==
    /\ fn.name = "validate_required_fields"
    /\ arg.business_name = " \t "
    /\ arg.business_owner_first_name = "x"
    /\ ret.missing_fields = <<"business_name", "consultation_date">>
    /\ ret.warnings # <<>>
    /\ ~ret.is_valid

\* C4: the record map_to_smartsheet_format returns has the same fixed set of
\* schema keys for every input, none missing; for the empty input it is the
\* record of the documented defaults, in which both name parts, business_name
\* and consultation_date are empty.
MapperTotal ==
    fn.name = "map_to_smartsheet_format" =>
        /\ DOMAIN ret = DOMAIN DocumentedDefaults
        /\ arg = EmptyDict =>
              /\ ret = DocumentedDefaults
              /\ ret.business_owner_first_name = "" /\ ret.business_owner_last_name = ""
              /\ ret.business_name = "" /\ ret.consultation_date = ""

\* The empty input has been mapped.
MapperTotalWitness ==
    /\ fn.name = "map_to_smartsheet_format"
    /\ arg = EmptyDict
    /\ ret.city = "Chicago"
    /\ ret.business_owner_first_name = ""

(***************************************************************************)
(* Properties of the workflow, checked under Spec.                         *)
(***************************************************************************)
\* C1: the consultation of a page whose text is the Acme scenario has
\* business_name "Acme Co", zip_code "60622", consultation_date "07/08/2025",
\* race, ethnicity and gender "Prefer not to answer", is_veteran and
\* is_disabled "No", and a validation with is_valid true.
AcmeScenario ==
    \A k \in 1..Len(parsed_consultations) :
        arg[page_of[k]].raw_text = AcmeText =>
            LET record == parsed_consultations[k].smartsheet_data
            IN  /\ record.business_name = "Acme Co"
                /\ record.zip_code = "60622"
                /\ record.consultation_date = "07/08/2025"
                /\ record.race = "Prefer not to answer"
                /\ record.ethnicity = "Prefer not to answer"
                /\ record.gender = "Prefer not to answer"
                /\ record.is_veteran = "No"
                /\ record.is_disabled = "No"
                /\ parsed_consultations[k].validation.is_valid

\* C5: a consultation whose validation has is_valid false is never handed to
\* the bot: its result is a failure marked skipped, the loop goes on to the
\* next consultation (every consultation before sub has its result, all have
\* one once the loop is over), and it is never handed to the CRM sync.
InvalidNeverSubmitted ==
    LET invalid(i) == ~parsed_consultations[i].validation.is_valid
    IN  /\ \A e \in 1..Len(bot_log) :
              /\ ~invalid(bot_log[e].index)
              /\ bot_log[e].form_data = parsed_consultations[bot_log[e].index].smartsheet_data
        /\ \A e \in 1..Len(crm_log) : ~invalid(crm_log[e].index)
        /\ \A i \in 1..Len(smartsheet_results) :
              invalid(i) =>
                  /\ smartsheet_results[i].success = FALSE
                  /\ Get(smartsheet_results[i], "skipped", FALSE)
        /\ pc = "submit" => Len(smartsheet_results) = sub - 1
        /\ driver = "closed" => Len(smartsheet_results) = Len(parsed_consultations)

\* The run is over; the first consultation was invalid and skipped, the second
\* went to the bot and to the CRM sync.
InvalidNeverSubmittedWitness ==
    /\ pc = "done"
    /\ Len(parsed_consultations) = 2
    /\ ~parsed_consultations[1].validation.is_valid
    /\ Len(smartsheet_results) = 2
    /\ smartsheet_results[1].skipped
    /\ Len(bot_log) = 1 /\ bot_log[1].index = 2
    /\ Len(crm_log) = 1 /\ crm_log[1].index = 2

\* The kind of page an OCR result is.
PageKind(ocr_result) ==
    CHOOSE kind \in PageKinds : ocr_page(kind, ocr_result.page_number) = ocr_result

\* What parse_form returns for each kind of page (the page number is not read),
\* and the consultation of each kind it parses.
Parsed == [kind \in PageKinds |-> parse_form(ocr_page(kind, 1))]

Consultation ==
    [kind \in {k \in PageKinds : Parsed[k].success} |-> consultation_of(Parsed[kind])]

\* Whether page i succeeds at both OCR and parsing.
PageSucceeds(i) == arg[i].success /\ Parsed[PageKind(arg[i])].success

\* The pages up to n that succeed, in page order.
GoodPages(n) == SelectSeq([i \in 1..n |-> i], PageSucceeds)

\* C9: a failing page affects no other page: the consultations parsed so far
\* are exactly those of the pages so far that succeeded at OCR and parsing,
\* each with its validation, in page order; a successful file-level result
\* holds those of all pages; the file-level result is a failure only when no
\* page succeeds or when saving the parsed data raised (stage 'error').
PagesIsolated ==
    LET good == GoodPages(page - 1)
    IN  /\ page_of = good
        /\ Len(parsed_consultations) = Len(good)
        /\ \A k \in 1..Len(good) :
              parsed_consultations[k] = Consultation[PageKind(arg[good[k]])]
        /\ parsing_result # NoRet =>
              IF parsing_result.success
              THEN /\ page - 1 = Len(arg)
                   /\ parsing_result.consultations = parsed_consultations
              ELSE \/ GoodPages(Len(arg)) = <<>>
                   \/ parsing_result.stage = "error"

\* The first page failed, the second was parsed, and the result is a success
\* with the consultation of the second page.
PagesIsolatedWitness ==
    /\ Len(arg) = 2
    /\ ~PageSucceeds(1)
    /\ PageSucceeds(2)
    /\ parsing_result # NoRet
    /\ parsing_result.success
    /\ parsing_result.consultations = <<Consultation[PageKind(arg[2])]>>

\* C9 as stated: the file-level result is a failure only when no page succeeds.
FailureOnlyWithoutPages ==
    (parsing_result # NoRet /\ ~parsing_result.success) => GoodPages(Len(arg)) = <<>>

(***************************************************************************)
(* Marks next to options, by positions in the text.                        *)
(***************************************************************************)
\* Whether a and b are the same string; when fold, up to the case of letters.
SameText(a, b, fold) ==
    /\ Len(a) = Len(b)
    /\ \A j \in 1..Len(a) :
          IF fold THEN Lower(Ch(a, j)) = Lower(Ch(b, j)) ELSE Ch(a, j) = Ch(b, j)

\* Whether the character c is a mark glyph.
IsMark(c, fold) == \E g \in MarkGlyphs : SameText(c, g, fold)

\* Whether the text holds the option at some position with a mark before or
\* after it, nothing but white space between the two.
MarkedIn(text, option, fold) ==
    \E i \in 1..Len(text) :
        /\ i + Len(option) - 1 <= Len(text)
        /\ SameText(SubSeq(text, i, i + Len(option) - 1), option, fold)
        /\ \/ \E j \in 1..(i - 1) :
                  /\ IsMark(Ch(text, j), fold)
                  /\ \A k \in (j + 1)..(i - 1) : Ch(text, k) \in WS
           \/ \E j \in (i + Len(option))..Len(text) :
                  /\ IsMark(Ch(text, j), fold)
                  /\ \A k \in (i + Len(option))..(j - 1) : Ch(text, k) \in WS

\* Whether the list l holds the option o.
Selected(l, o) == \E i \in 1..Len(l) : l[i] = o

\* C11: extract_checkbox_selections selects an option of the group if and only
\* if the text holds the option's registered text, compared without regard to
\* case, with a mark glyph (X or x, or the check, cross or box glyph) before or
\* after it and nothing but white space between them; with no such mark the
\* selection is empty; "X Growth Phase" gives ["Growth Phase"] for business_stage.
SelectedIffMarked ==
    (fn.name = "extract_checkbox_selections" /\ fn.field_name \in DOMAIN choice_options) =>
        LET options == choice_options[fn.field_name]
        IN  /\ \A k \in 1..Len(options) :
                  Selected(ret, options[k]) <=> MarkedIn(arg, options[k], TRUE)
            /\ (\A k \in 1..Len(options) : ~MarkedIn(arg, options[k], TRUE)) => ret = <<>>
            /\ (fn.field_name = "business_stage" /\ arg = "Business Stage: X Growth Phase")
                   => ret = <<"Growth Phase">>

\* The scenario of business_stage was extracted, and so was a race marked after
\* its option.
SelectedIffMarkedWitness ==
    /\ fn.name = "extract_checkbox_selections"
    /\ \/ fn.field_name = "business_stage" /\ arg = "Business Stage: X Growth Phase"
          /\ ret = <<"Growth Phase">>
       \/ fn.field_name = "race" /\ arg = "Asian X" /\ ret = <<"Asian">>

\* C11 as stated: the option's text and the mark glyph are compared exactly, so
\* that a lower-case x is no mark.
SelectedIffMarkedExactly ==
    (fn.name = "extract_checkbox_selections" /\ fn.field_name \in DOMAIN choice_options) =>
        LET options == choice_options[fn.field_name]
        IN  \A k \in 1..Len(options) :
                Selected(ret, options[k]) <=> MarkedIn(arg, options[k], FALSE)

\* C20: extract_consultation_notes returns no trivial note: every note it
\* returns that is not empty is longer than 20 characters.
NotesAreSubstantial ==
    (fn.name = "extract_consultation_notes" /\ ~ret.raised /\ ret.v # "") =>
        Len(ret.v) > 20

(***************************************************************************)
(* Further properties of the mapper, checked under SpecMap.                *)
(***************************************************************************)
\* C12: the business stage of the record is the table's value when the first
\* selected stage is a key of the table, that stage itself, unchanged, when it
\* is not a key, and "Growth Phase" only when no stage was selected.
StagePassesThrough ==
    fn.name = "map_to_smartsheet_format" =>
        LET business_stage == Get(arg, "business_stage", <<>>)
        IN  ret.business_stage =
                IF business_stage = <<>> THEN "Growth Phase"
                ELSE IF business_stage[1] \in DOMAIN business_stage_mapping
                     THEN business_stage_mapping[business_stage[1]]
                     ELSE business_stage[1]

\* C18: business_owner_first_name is the first run of characters of the contact
\* name that are not white space, business_owner_last_name what follows it with
\* its ends trimmed and every run of white space made one space (the remaining
\* tokens joined by single spaces); a name of one token has an empty last name,
\* and an empty, blank or absent contact name gives the empty string for both.
NameSplit ==
    fn.name = "map_to_smartsheet_format" =>
        LET name == Get(arg, "contact_name", "")
            first == ret.business_owner_first_name
            last == ret.business_owner_last_name
        IN  /\ {"business_owner_first_name", "business_owner_last_name"} \subseteq DOMAIN ret
            /\ IF \A i \in 1..Len(name) : Ch(name, i) \in WS
               THEN first = "" /\ last = ""
               ELSE \E i, j \in 1..Len(name) :
                       /\ i <= j
                       /\ first = SubSeq(name, i, j)
                       /\ \A k \in 1..(i - 1) : Ch(name, k) \in WS
                       /\ \A k \in i..j : Ch(name, k) \notin WS
                       /\ j < Len(name) => Ch(name, j + 1) \in WS
                       /\ last = CollapseWS(Strip(SubSeq(name, j + 1, Len(name))))

\* A name of three tokens parted by runs of white space was split.
NameSplitWitness ==
    /\ fn.name = "map_to_smartsheet_format"
    /\ "contact_name" \in DOMAIN arg
    /\ arg.contact_name = " Ann  Lee\tPoe "
    /\ ret.business_owner_first_name = "Ann"
    /\ ret.business_owner_last_name = "Lee Poe"

\* The choice groups with a scalar attribute: the attribute, the group and the
\* static default.
ChoiceSlots ==
    { <<"consultation_language", "language", "English">>,
      <<"business_presence", "business_presence", "Brick & Mortar">>,
      <<"race", "race", "Prefer not to answer">>,
      <<"ethnicity", "ethnicity", "Prefer not to answer">>,
      <<"is_veteran", "veteran", "No">>,
      <<"is_disabled", "disabled", "No">> }

\* The scalar fields that are copied: the attribute, the field and the default.
FieldSlots ==
    { <<"business_name", "business_name", "">>,
      <<"business_owner_email", "email", "">>,
      <<"business_street_address", "address", "">>,
      <<"city", "city", "Chicago">>,
      <<"zip_code", "zip", "">>,
      <<"consultation_length", "contact_time", "1">>,
      <<"business_structure", "business_structure", "Limited Liability Company">>,
      <<"years_in_business", "years_in_business", "2 to 5 years">>,
      <<"business_summary", "consultation_notes", "">> }

\* Whether the attributes of the slots hold the first selection of their group,
\* or the extracted value of their field, and the default when there is none.
SlotsFilled(parsed_data, record) ==
    /\ \A slot \in ChoiceSlots :
          /\ slot[1] \in DOMAIN record
          /\ record[slot[1]] =
                IF slot[2] \in DOMAIN parsed_data /\ Len(parsed_data[slot[2]]) > 0
                THEN parsed_data[slot[2]][1] ELSE slot[3]
    /\ \A slot \in FieldSlots :
          /\ slot[1] \in DOMAIN record
          /\ record[slot[1]] =
                IF slot[2] \in DOMAIN parsed_data THEN parsed_data[slot[2]] ELSE slot[3]

\* C19: each scalar attribute of a choice group is the first option of the
\* extracted selection, or its static default when the selection is absent or
\* empty; each copied scalar field is the extracted value, or its default
\* constant, else the empty string; employee_count is the extracted
\* full_time_employees (default "2") followed by " employees", and
\* consultation_date the extracted session_date as parse_date returns it.
SlotsFromExtraction ==
    fn.name = "map_to_smartsheet_format" =>
        /\ SlotsFilled(arg, ret)
        /\ ret.employee_count =
              (IF "full_time_employees" \in DOMAIN arg THEN arg.full_time_employees ELSE "2")
                  \o " employees"
        /\ ret.consultation_date =
              (IF "session_date" \in DOMAIN arg THEN parse_date(arg.session_date) ELSE "")

\* Two races were selected and the first is the record's; the city was not
\* extracted and has its default.
SlotsFromExtractionWitness ==
    /\ fn.name = "map_to_smartsheet_format"
    /\ "race" \in DOMAIN arg
    /\ arg.race = <<"Asian", "White">>
    /\ ret.race = "Asian"
    /\ "city" \notin DOMAIN arg
    /\ ret.city = "Chicago"

\* C19 as stated: employee_count too is the extracted value when there is one,
\* else its default.
EveryScalarCopied ==
    fn.name = "map_to_smartsheet_format" =>
        /\ SlotsFilled(arg, ret)
        /\ ret.employee_count =
              (IF "full_time_employees" \in DOMAIN arg THEN arg.full_time_employees
               ELSE "2 employees")

(***************************************************************************)
(* Further properties of the validator, checked under SpecValidate.        *)
(***************************************************************************)
\* C13: validate_required_fields changes the record in one way only: a
\* consultation_length that is empty once trimmed becomes "1", with exactly one
\* warning that tells of the default; every other attribute keeps its value,
\* empty required fields included; a consultation_length that is not empty
\* leaves the record as it was and the warnings empty.
OnlyLengthDefaulted ==
    fn.name = "validate_required_fields" =>
        LET blank == \A i \in 1..Len(arg.consultation_length) :
                        Ch(arg.consultation_length, i) \in WS
        IN  /\ DOMAIN ret.data = DOMAIN arg
            /\ \A k \in DOMAIN arg \ {"consultation_length"} : ret.data[k] = arg[k]
            /\ IF blank
               THEN /\ ret.data.consultation_length = "1"
                    /\ ret.warnings = <<"Used default consultation length: 1 hour">>
               ELSE /\ ret.data.consultation_length = arg.consultation_length
                    /\ ret.warnings = <<>>

\* A blank consultation_length was defaulted with one warning while the empty
\* business name and the blank date stayed as they were.
OnlyLengthDefaultedWitness ==
    /\ fn.name = "validate_required_fields"
    /\ arg.consultation_length = " \t "
    /\ arg.business_name = ""
    /\ arg.consultation_date = " \t "
    /\ ret.data.consultation_length = "1"
    /\ ret.data.business_name = ""
    /\ ret.data.consultation_date = " \t "
    /\ Len(ret.warnings) = 1

(***************************************************************************)
(* Further properties of the workflow, checked under Spec.                 *)
(***************************************************************************)
\* C14: the consultation of a page whose text has no Business Name line, and
\* gives a contact name and a session date, has is_valid false and
\* missing_fields = [business_name]; and every consultation whose record has
\* an empty business_name has is_valid false and business_name among its
\* missing_fields.
NoBusinessNameInvalid ==
    \A k \in 1..Len(parsed_consultations) :
        LET text == arg[page_of[k]].raw_text
            record == parsed_consultations[k].smartsheet_data
            validation == parsed_consultations[k].validation
        IN  /\ record.business_name = "" =>
                  /\ validation.is_valid = FALSE
                  /\ Selected(validation.missing_fields, "business_name")
            /\ ( /\ \A i \in 1..Len(text) : ~HasLit(text, i, "Business Name")
                 /\ record.business_owner_first_name # ""
                 /\ record.consultation_date # "" ) =>
                  /\ validation.is_valid = FALSE
                  /\ validation.missing_fields = <<"business_name">>

\* The page without a Business Name line was parsed: its contact name and date
\* were found and business_name alone is missing.
NoBusinessNameInvalidWitness ==
    \E k \in 1..Len(parsed_consultations) :
        /\ arg[page_of[k]].raw_text = NamelessText
        /\ parsed_consultations[k].smartsheet_data.business_name = ""
        /\ parsed_consultations[k].smartsheet_data.business_owner_first_name = "Ann"
        /\ parsed_consultations[k].smartsheet_data.consultation_date = "07/08/2025"
        /\ parsed_consultations[k].validation.missing_fields = <<"business_name">>
        /\ parsed_consultations[k].validation.is_valid = FALSE

(***************************************************************************)
(* Properties of parse_date, checked under SpecDate.                       *)
(***************************************************************************)
\* The formats in the order stated: month/day/4-digit year, month/day/2-digit
\* year, month-day-4-digit year, month-day-2-digit year, day/month/4-digit
\* year, day/month/2-digit year.
StatedFormats ==
    << [first |-> "m", sep |-> "/", ylen |-> 4], [first |-> "m", sep |-> "/", ylen |-> 2],
       [first |-> "m", sep |-> "-", ylen |-> 4], [first |-> "m", sep |-> "-", ylen |-> 2],
       [first |-> "d", sep |-> "/", ylen |-> 4], [first |-> "d", sep |-> "/", ylen |-> 2] >>

\* The stated formats that parse the text s.
ParsingFormats(s) == {k \in 1..Len(StatedFormats) : strptime(s, StatedFormats[k]).ok}

\* The date in the form MM/DD/YYYY.
Canonical(date) == Pad2(date.m) \o "/" \o Pad2(date.d) \o "/" \o Pad4(date.y)

\* Whether s is a date in the form MM/DD/YYYY.
IsCanonical(s) ==
    /\ Len(s) = 10
    /\ \A i \in {1, 2, 4, 5, 7, 8, 9, 10} : Ch(s, i) \in Digits
    /\ Ch(s, 3) = "/" /\ Ch(s, 6) = "/"
    /\ ToInt(SubSeq(s, 1, 2)) \in 1..12
    /\ ToInt(SubSeq(s, 7, 10)) >= 1
    /\ ToInt(SubSeq(s, 4, 5)) \in
           1..DaysInMonth(ToInt(SubSeq(s, 7, 10)), ToInt(SubSeq(s, 1, 2)))

\* Whether t is s without its leading and trailing white space.
Trimmed(s, t) ==
    \E i \in 1..(Len(s) + 1), j \in 0..Len(s) :
        /\ t = SubSeq(s, i, j)
        /\ \A k \in 1..(i - 1) : Ch(s, k) \in WS
        /\ \A k \in (j + 1)..Len(s) : Ch(s, k) \in WS
        /\ i <= j => (Ch(s, i) \notin WS /\ Ch(s, j) \notin WS)

\* C15: parse_date returns the date read by the first of the stated formats, in
\* their order, that parses the trimmed input, written as MM/DD/YYYY; 03/04/2025
\* is read month first, and a day-first reading is returned only when none of
\* the month-first formats parses.
FirstFormatAsCanonical ==
    (fn.name = "parse_date" /\ ParsingFormats(Strip(arg)) # {}) =>
        LET hits == ParsingFormats(Strip(arg))
            k == CHOOSE h \in hits : \A j \in hits : h <= j
        IN  /\ ret = Canonical(strptime(Strip(arg), StatedFormats[k]))
            /\ arg = "03/04/2025" => ret = "03/04/2025"
            /\ (\E h \in hits : StatedFormats[h].first = "m") => StatedFormats[k].first = "m"

\* C16: when no format parses the input, parse_date returns the input without
\* its leading and trailing white space and the empty input gives the empty
\* string; the mapper puts that value in consultation_date, and the validator
\* reports consultation_date missing only when the value is empty, the record
\* being valid otherwise.
UnparsedPassesThrough ==
    (\A k \in 1..Len(date_formats) : ~strptime(Strip(arg), date_formats[k]).ok) =>
        /\ fn.name = "parse_date" =>
              /\ Trimmed(arg, ret)
              /\ arg = "" => ret = ""
        /\ fn.name = "map_to_smartsheet_format" => Trimmed(arg, ret.consultation_date)
        /\ fn.name = "validate_required_fields" =>
              /\ Selected(ret.missing_fields, "consultation_date") <=> Trimmed(arg, "")
              /\ ret.is_valid <=> ~Trimmed(arg, "")
              /\ Trimmed(arg, ret.data.consultation_date)

\* An input with letters among its digits and white space around it came back
\* trimmed.
UnparsedPassesThroughWitness ==
    /\ fn.name = "parse_date"
    /\ arg = " 7/8/2O25\t"
    /\ ret = "7/8/2O25"

\* C17: parse_date returns a string of the form MM/DD/YYYY as it is, and
\* parsing what parse_date returned returns it again.
CanonicalIsFixed ==
    fn.name = "parse_date" =>
        /\ IsCanonical(arg) => ret = arg
        /\ parse_date_with(ret, fn.pads_year) = ret

(***************************************************************************)
(* What parse_form leaves out.                                             *)
(***************************************************************************)
\* Whether one of the field's patterns matches somewhere in the text.
FieldFound(text, field_name) ==
    \E i \in 1..Len(field_patterns[field_name]) :
        Search(field_patterns[field_name][i], text).ok

\* Whether parse_form was called with an OCR result that succeeded, on a text
\* whose notes extraction did not raise.
ParsedText ==
    /\ fn.name = "parse_form"
    /\ Get(fn.ocr_result, "success", FALSE)
    /\ ~extract_consultation_notes(arg).raised

\* C21: absence is omission.  In every successful result of parse_form a field,
\* choice group or note that was not found has no key in raw_parsed_data, and no
\* key is present with an empty string or an empty list: a field's key holds a
\* non-empty string, a group's key a non-empty list, the notes' key a non-empty
\* string.  Fields that are not found never make the page fail: the page
\* succeeds whatever fields its text lacks.
AbsenceIsOmission ==
    ParsedText =>
        /\ ret.success
        /\ LET d == ret.raw_parsed_data
           IN  /\ \A k \in 1..Len(FieldNames) :
                     /\ ~FieldFound(arg, FieldNames[k]) => FieldNames[k] \notin DOMAIN d
                     /\ FieldNames[k] \in DOMAIN d => d[FieldNames[k]] # ""
               /\ \A k \in 1..Len(ChoiceNames) :
                     /\ (\A o \in 1..Len(choice_options[ChoiceNames[k]]) :
                            ~MarkedIn(arg, choice_options[ChoiceNames[k]][o], TRUE))
                            => ChoiceNames[k] \notin DOMAIN d
                     /\ ChoiceNames[k] \in DOMAIN d => Len(d[ChoiceNames[k]]) > 0
               /\ extract_consultation_notes(arg).v = "" => "consultation_notes" \notin DOMAIN d
               /\ "consultation_notes" \in DOMAIN d => d["consultation_notes"] # ""

\* A page with a zip code and nothing else that is registered but what the
\* digits of the zip code match was parsed: it succeeded, with no key for the
\* business name, the race or the notes.
AbsenceIsOmissionWitness ==
    /\ ParsedText
    /\ arg = "Zip: 60622"
    /\ ret.success
    /\ "zip" \in DOMAIN ret.raw_parsed_data
    /\ {"business_name", "race", "consultation_notes"} \cap DOMAIN ret.raw_parsed_data = {}

(***************************************************************************)
(* The shape of the scalar values of raw_parsed_data.                      *)
(***************************************************************************)
\* Whether the string s is not empty, neither starts nor ends with white space,
\* holds no two white-space characters in a row, and holds neither "|" nor "0".
Normalized(s) ==
    /\ s # ""
    /\ Ch(s, 1) \notin WS
    /\ Ch(s, Len(s)) \notin WS
    /\ \A j \in 1..(Len(s) - 1) : ~(Ch(s, j) \in WS /\ Ch(s, j + 1) \in WS)
    /\ \A j \in 1..Len(s) : Ch(s, j) \notin {"|", "0"}

ScalarKeys == {FieldNames[k] : k \in 1..Len(FieldNames)} \cup {"consultation_notes"}

VeteranEqualsDisabled ==
    /\ (fn.name = "extract_checkbox_selections" /\ fn.field_name = "veteran")
           => ret = extract_checkbox_selections(arg, "disabled")
    /\ (fn.name = "extract_checkbox_selections" /\ fn.field_name = "disabled")
           => ret = extract_checkbox_selections(arg, "veteran")
    /\ (fn.name = "parse_form" /\ ret.success) =>
           /\ ret.smartsheet_data.is_veteran = ret.smartsheet_data.is_disabled
           /\ Get(ret.raw_parsed_data, "veteran", <<>>)
                  = Get(ret.raw_parsed_data, "disabled", <<>>)

\* A page whose veteran question is answered Yes was parsed: both attributes
\* are Yes.
VeteranEqualsDisabledWitness ==
    /\ fn.name = "parse_form"
    /\ arg = "Veteran: X Yes"
    /\ ret.success
    /\ ret.raw_parsed_data.veteran = <<"Yes">>
    /\ ret.smartsheet_data.is_veteran = "Yes"
    /\ ret.smartsheet_data.is_disabled = "Yes"

\* C27: in the pipeline parse_form then validate_required_fields the
\* consultation_length of the canonical record is never blank, so the soft
\* default never fires: warnings is empty and data is the mapper's output.
SoftDefaultNeverFires ==
    (fn.name = "validate_required_fields" /\ "parse_result" \in DOMAIN fn) =>
        /\ Strip(fn.parse_result.smartsheet_data.consultation_length) # ""
        /\ ret.warnings = <<>>
        /\ ret.data = fn.parse_result.smartsheet_data
        /\ ret.data = map_to_smartsheet_format(fn.parse_result.raw_parsed_data)

\* A page with a contact time and a page without one were parsed and validated:
\* the length is the extracted one, or the mapper's default.
SoftDefaultNeverFiresWitness ==
    /\ fn.name = "validate_required_fields"
    /\ "parse_result" \in DOMAIN fn
    /\ \/ arg = "Contact Time: 2" /\ ret.data.consultation_length = "2"
       \/ arg = "Zip: 60622" /\ ret.data.consultation_length = "1"
    /\ ret.warnings = <<>>

(***************************************************************************)
(* No state is carried from one call of parse_form to the next.            *)
(***************************************************************************)
\* The raw_parsed_data of each kind of page that parses, parsed on its own.
ExpectedFields ==
    [acme |-> [business_name |-> "Acme Co", zip |-> "6O622",
               years_in_business |-> "6O622", session_date |-> "O7/O8/2O25"],
     complete |-> [business_name |-> "Acme Co", contact_name |-> "Ann Lee",
                   years_in_business |-> "7", session_date |-> "7/8/25"],
     nameless |-> [contact_name |-> "Ann Lee", years_in_business |-> "7",
                   session_date |-> "7/8/25"]]

PastCrm == pc = "save" \/ (pc = "done" /\ driver = "closed")

\* C28: run_complete_workflow hands to the CRM exactly the consultations whose
\* Smartsheet result, at the same position, has success true, in their order.
\* process_smartsheet_submissions gives one result per consultation, in order;
\* a consultation that failed, timed out or was skipped is never sent; with
\* use_crm false nothing is sent at all.
CrmGetsSuccessfulOnly ==
    /\ \A e \in 1..Len(crm_log) :
          /\ use_crm
          /\ crm_log[e].index \in 1..Len(smartsheet_results)
          /\ smartsheet_results[crm_log[e].index].success
          /\ "skipped" \notin DOMAIN smartsheet_results[crm_log[e].index]
          /\ crm_log[e].form_data
                 = parsing_result.consultations[crm_log[e].index].smartsheet_data
          /\ e > 1 => crm_log[e - 1].index < crm_log[e].index
    /\ (pc = "crm" \/ PastCrm) =>
          /\ Len(smartsheet_results) = Len(parsing_result.consultations)
          /\ \A i \in 1..Len(smartsheet_results) :
                smartsheet_results[i].business_name
                    = parsing_result.consultations[i].smartsheet_data.business_name
    /\ PastCrm =>
          /\ {crm_log[e].index : e \in 1..Len(crm_log)}
                 = IF use_crm
                   THEN {i \in 1..Len(smartsheet_results) : smartsheet_results[i].success}
                   ELSE {}
          /\ Len(crm_results) = Len(crm_log)
    /\ ~use_crm => crm_log = <<>> /\ crm_results = <<>>

\* Of two consultations the first timed out and the second was submitted, and
\* the CRM got the second alone.
CrmGetsSuccessfulOnlyWitness ==
    /\ PastCrm
    /\ use_crm
    /\ Len(smartsheet_results) = 2
    /\ ~smartsheet_results[1].success
    /\ "skipped" \notin DOMAIN smartsheet_results[1]
    /\ smartsheet_results[2].success
    /\ Len(crm_log) = 1
    /\ crm_log[1].index = 2

\* C23: the workflow submits in document order, and every two consecutive
\* submissions are separated by a cool-down: the loop sleeps after every
\* submission but the last one.
SubmissionsSpacedOut ==
    \A e \in 1..Len(bot_log) :
        /\ e > 1 => bot_log[e - 1].index < bot_log[e].index
        /\ e < Len(bot_log) => bot_log[e].slept_after > 0

(***************************************************************************)
(* Properties of the browser sessions, checked under SpecUploads.          *)
(***************************************************************************)
OpenSessions == {s \in 1..Len(sessions) : sessions[s] = "open"}

\* C22: submission to Smartsheet is strictly sequential in every interleaving
\* of the runs the shared instance handles: at most one browser session is
\* open, at most one record is being submitted, and a run quits only the
\* browser session it started.
OneSessionOneRecord ==
    /\ Cardinality(OpenSessions) <= 1
    /\ Cardinality({r \in Runs : runs[r].pc = "submitting"}) <= 1
    /\ \A r \in Runs : runs[r].stopped \in {0, runs[r].started}

\* C30: process_smartsheet_submissions always releases the browser: when the
\* call has returned or raised, the browser session it started, if any, has
\* been quit.
BrowserReleased ==
    \A r \in Runs :
        (runs[r].pc = "returned" /\ runs[r].started # 0)
            => sessions[runs[r].started] = "quit"

(***************************************************************************)
(* Properties of the CRM sync, checked under SpecCrm.                      *)
(***************************************************************************)
TwentyPaths == <<"/companies", "/contacts", "/activities">>

TwentyKinds == <<"company", "contact", "activity">>

\* C29: send_to_twenty_crm_direct sends its requests in the order company,
\* contact, activity, each later one only after the one before it succeeded;
\* nothing is rolled back: every record the server made is still there when the
\* call is over; and when a request fails sync_consultation_data returns, and
\* does not raise, a result whose crm_sync_success is false.
TwentyInOrder ==
    (fn.name = "sync_consultation_data" /\ ~fn.use_n8n) =>
        /\ Len(crm_requests) <= 3
        /\ \A e \in 1..Len(crm_requests) :
              /\ crm_requests[e].method = "POST"
              /\ e <= 3 => crm_requests[e].path = TwentyPaths[e]
              /\ e > 1 => crm_requests[e - 1].outcome = "created"
              /\ (e <= 3 /\ Stored(crm_requests[e].outcome))
                     => \E i \in 1..Len(crm_records) : crm_records[i].kind = TwentyKinds[e]
        /\ pc = "done" =>
              /\ "crm_sync_success" \in DOMAIN ret
              /\ ret.crm_sync_success <=>
                     (Len(crm_requests) = 3 /\ crm_requests[3].outcome = "created")

\* The company was created and the contact refused: the call is over, it
\* reports a failure, and the company is in the CRM.
TwentyInOrderWitness ==
    /\ fn.name = "sync_consultation_data"
    /\ ~fn.use_n8n
    /\ pc = "done"
    /\ Len(crm_requests) = 2
    /\ crm_requests[2].outcome = "refused"
    /\ Len(crm_records) = 1
    /\ crm_records[1].kind = "company"
    /\ ~ret.crm_sync_success

\* The case of C30 in which no other run overlaps: a run whose peer has not
\* begun quits the session it started, and no other, on every way out, and
\* its loop has gone through all its consultations unless start_browser raised.
ReleasedWhenAlone ==
    (\A r \in Runs \ {1} : runs[r].pc = "new") =>
        /\ Cardinality(OpenSessions) <= 1
        /\ runs[1].stopped \in {0, runs[1].started}
        /\ (runs[1].pc = "returned" /\ runs[1].started # 0)
               => sessions[runs[1].started] = "quit"
        /\ (runs[1].pc = "returned" /\ ~runs[1].raised)
               => runs[1].index = runs[1].total + 1

=============================================================================
